---------------------------- MODULE Spec2Model ----------------------------
(***************************************************************************)
(* A model of the syslog-ng configuration lexer and preprocessor           *)
(* (lib/cfg-lexer.c, kept in this tree as                                  *)
(* src/packaging/debian/syslog-ng-core.postrm, lines 24-908).              *)
(*                                                                         *)
(* Texts (C strings) are sequences of characters, a character being a      *)
(* string.  A pointer that may be NULL is a sequence of length 0 (NULL) or *)
(* 1 (the value pointed to).                                               *)
(***************************************************************************)
EXTENDS Integers, Sequences, FiniteSets, TLC

VARIABLES
  sub,            \* one call of cfg_lexer_subst_args: its arguments and its result
  lexer,          \* the CfgLexer (self in the code)
  configuration,  \* the global configuration: version and parsed_version
  callstack,      \* the active calls of cfg_lexer_lex and cfg_parser_parse, innermost last
  ret,            \* what the call that returned last has returned
  hist,           \* the grammar's side: the token it kept, what was released, counts
  keyword_tables, \* the keyword tables (CfgLexerKeyword arrays) the context frames point to
  call            \* one call of a function that is looked at on its own

vars == <<sub, lexer, configuration, callstack, ret, hist, keyword_tables, call>>

(***************************************************************************)
(* Bounds of the model                                                     *)
(***************************************************************************)
MaxLen == 4          \* longest text given to the substitutor

(***************************************************************************)
(* Generic helpers                                                         *)
(***************************************************************************)
\* the back-tick character (a TLA+ string cannot hold it)
BT == "<backtick>"

NULL == <<>>
Some(v) == <<v>>

RECURSIVE SeqsUpTo(_, _)
SeqsUpTo(S, n) ==
  IF n = 0 THEN {<<>>}
  ELSE LET shorter == SeqsUpTo(S, n - 1)
       IN shorter \cup {Append(s, c) : s \in {t \in shorter : Len(t) = n - 1}, c \in S}

IsPrefix(s, t) == Len(s) <= Len(t) /\ SubSeq(t, 1, Len(s)) = s

(***************************************************************************)
(* ArgMap: struct _CfgArgs, a hash table from keys to values               *)
(***************************************************************************)
\* normalize_key() of the ArgMap: lower case, '-' replaced by '_'
normalize_char(c) ==
  CASE c = "-" -> "_"
    [] c = "P" -> "p"
    [] c = "Q" -> "q"
    [] OTHER -> c

normalize_key(name) == [i \in 1..Len(name) |-> normalize_char(name[i])]

\* g_hash_table_lookup: NULL when the key is absent
g_hash_table_lookup(table, key) ==
  IF key \in DOMAIN table THEN Some(table[key]) ELSE NULL

cfg_args_new == <<>>

cfg_args_set(self, name, value) ==
  [k \in (DOMAIN self) \cup {normalize_key(name)} |->
     IF k = normalize_key(name) THEN value ELSE self[k]]

cfg_args_get(self, name) ==
  LET value == g_hash_table_lookup(self, name)
  IN IF value = NULL THEN g_hash_table_lookup(self, normalize_key(name)) ELSE value

\* g_getenv: the process environment, looked up by the exact name
g_getenv(env, name) == IF name \in DOMAIN env THEN Some(env[name]) ELSE NULL

(***************************************************************************)
(* Substitutor: cfg_lexer_subst_args                                       *)
(***************************************************************************)
\* a mutation of subst_lookup: defs consulted before args
subst_lookup_defs_first(globals, defs, args, env, name) ==
  IF defs # NULL /\ cfg_args_get(defs[1], name) # NULL THEN cfg_args_get(defs[1], name)
  ELSE IF args # NULL /\ cfg_args_get(args[1], name) # NULL THEN cfg_args_get(args[1], name)
  ELSE IF globals # NULL /\ cfg_args_get(globals[1], name) # NULL
       THEN cfg_args_get(globals[1], name)
  ELSE g_getenv(env, name)

\* the scope chain of a closed reference: args, defs, globals, environment
subst_lookup(globals, defs, args, env, name) ==
  IF args # NULL /\ cfg_args_get(args[1], name) # NULL THEN cfg_args_get(args[1], name)
  ELSE IF defs # NULL /\ cfg_args_get(defs[1], name) # NULL THEN cfg_args_get(defs[1], name)
  ELSE IF globals # NULL /\ cfg_args_get(globals[1], name) # NULL
       THEN cfg_args_get(globals[1], name)
  ELSE g_getenv(env, name)

\* a mutation of subst_finish: an open reference at the end is not reported
subst_finish_no_check(backtick, result) ==
  Some([str |-> result, length |-> Len(result)])

\* after the loop: NULL when a reference is still open, else the text and *length
subst_finish(backtick, result) ==
  IF backtick THEN NULL
  ELSE Some([str |-> result, length |-> Len(result)])

\* a mutation of subst_append_c: a lower case letter is copied as its capital
subst_append_c_upcase(result, c) == Append(result, IF c = "p" THEN "P" ELSE c)

\* g_string_append_c(result, *p) for a character outside a reference
subst_append_c(result, c) == Append(result, c)

\* the while loop: p and ref_start are positions in cptr (1-based)
RECURSIVE subst_loop(_, _, _, _, _, _, _, _, _)
subst_loop(globals, defs, args, env, cptr, p, backtick, ref_start, result) ==
  IF p > Len(cptr) THEN subst_finish(backtick, result)
  ELSE IF ~backtick /\ cptr[p] = BT
       THEN subst_loop(globals, defs, args, env, cptr, p + 1, TRUE, p + 1, result)
  ELSE IF backtick /\ cptr[p] = BT
       THEN IF ref_start = p
            THEN subst_loop(globals, defs, args, env, cptr, p + 1, FALSE, ref_start,
                            Append(result, BT))
            ELSE LET arg == subst_lookup(globals, defs, args, env,
                                         SubSeq(cptr, ref_start, p - 1))
                 IN subst_loop(globals, defs, args, env, cptr, p + 1, FALSE, ref_start,
                               result \o (IF arg # NULL THEN arg[1] ELSE <<>>))
  ELSE IF ~backtick
       THEN subst_loop(globals, defs, args, env, cptr, p + 1, backtick, ref_start,
                       subst_append_c(result, cptr[p]))
  ELSE subst_loop(globals, defs, args, env, cptr, p + 1, backtick, ref_start, result)

cfg_lexer_subst_args(globals, defs, args, env, cptr) ==
  subst_loop(globals, defs, args, env, cptr, 1, FALSE, 1, <<>>)

\* the buffer cptr itself: the loop writes into it.  NUL is the character '\0'.
NUL == "NUL"

\* the text a C string holds: the characters before the first NUL
c_str(buffer) ==
  LET nuls == {i \in 1..Len(buffer) : buffer[i] = NUL}
  IN IF nuls = {} THEN buffer
     ELSE SubSeq(buffer, 1, (CHOOSE i \in nuls : \A j \in nuls : i <= j) - 1)

\* *p = 0 before the lookups
subst_terminate(cptr, p) == [cptr EXCEPT ![p] = NUL]

\* a mutation of subst_restore: the NUL is left where it was written
subst_restore_skip(cptr, p) == cptr

\* *p = BT after the lookups
subst_restore(cptr, p) == [cptr EXCEPT ![p] = BT]

\* what the while loop leaves in the buffer cptr
RECURSIVE subst_buffer(_, _, _, _)
subst_buffer(cptr, p, backtick, ref_start) ==
  IF p > Len(cptr) THEN cptr
  ELSE IF ~backtick /\ cptr[p] = BT THEN subst_buffer(cptr, p + 1, TRUE, p + 1)
  ELSE IF backtick /\ cptr[p] = BT
       THEN IF ref_start = p THEN subst_buffer(cptr, p + 1, FALSE, ref_start)
            ELSE subst_buffer(subst_restore(subst_terminate(cptr, p), p), p + 1, FALSE,
                              ref_start)
  ELSE subst_buffer(cptr, p + 1, backtick, ref_start)

(***************************************************************************)
(* Token kinds (cfg-grammar.h) and context types (enum of cfg-lexer.h, in  *)
(* the order of the lexer_contexts table)                                  *)
(***************************************************************************)
LL_IDENTIFIER == "LL_IDENTIFIER"
LL_STRING == "LL_STRING"
LL_TOKEN == "LL_TOKEN"
LL_BLOCK == "LL_BLOCK"
LL_PRAGMA == "LL_PRAGMA"
LL_ERROR == "LL_ERROR"
LL_EOF == "YYEOF"
KW_INCLUDE == "KW_INCLUDE"

LL_CONTEXT_ROOT == 1
LL_CONTEXT_DESTINATION == 2
LL_CONTEXT_SOURCE == 3
LL_CONTEXT_PARSER == 4
LL_CONTEXT_REWRITE == 5
LL_CONTEXT_FILTER == 6
LL_CONTEXT_LOG == 7
LL_CONTEXT_BLOCK_DEF == 8
LL_CONTEXT_BLOCK_REF == 9
LL_CONTEXT_BLOCK_CONTENT == 10
LL_CONTEXT_BLOCK_ARG == 11
LL_CONTEXT_PRAGMA == 12
LL_CONTEXT_FORMAT == 13
LL_CONTEXT_TEMPLATE_FUNC == 14
LL_CONTEXT_INNER_DEST == 15
LL_CONTEXT_INNER_SRC == 16
LL_CONTEXT_CLIENT_PROTO == 17
LL_CONTEXT_SERVER_PROTO == 18

\* lexer_contexts[]: no entry is given for LL_CONTEXT_BLOCK_ARG, nor for 0
lexer_contexts(type) ==
  CASE type = LL_CONTEXT_ROOT -> Some("root")
    [] type = LL_CONTEXT_DESTINATION -> Some("destination")
    [] type = LL_CONTEXT_SOURCE -> Some("source")
    [] type = LL_CONTEXT_PARSER -> Some("parser")
    [] type = LL_CONTEXT_REWRITE -> Some("rewrite")
    [] type = LL_CONTEXT_FILTER -> Some("filter")
    [] type = LL_CONTEXT_LOG -> Some("log")
    [] type = LL_CONTEXT_BLOCK_DEF -> Some("block-def")
    [] type = LL_CONTEXT_BLOCK_REF -> Some("block-ref")
    [] type = LL_CONTEXT_BLOCK_CONTENT -> Some("block-content")
    [] type = LL_CONTEXT_PRAGMA -> Some("pragma")
    [] type = LL_CONTEXT_FORMAT -> Some("format")
    [] type = LL_CONTEXT_TEMPLATE_FUNC -> Some("template-func")
    [] type = LL_CONTEXT_INNER_DEST -> Some("inner-dest")
    [] type = LL_CONTEXT_INNER_SRC -> Some("inner-src")
    [] type = LL_CONTEXT_CLIENT_PROTO -> Some("client-proto")
    [] type = LL_CONTEXT_SERVER_PROTO -> Some("server-proto")
    [] OTHER -> NULL

cfg_lexer_lookup_context_name_by_type(type) == lexer_contexts(type)

\* G_N_ELEMENTS(lexer_contexts): the table ends with its last initialized slot
lexer_contexts_len == LL_CONTEXT_SERVER_PROTO + 1

\* the first slot of the table that holds name, 0 when there is none
cfg_lexer_lookup_context_type_by_name(name) ==
  LET hits == {i \in 0..(lexer_contexts_len - 1) : lexer_contexts(i) = Some(name)}
  IN IF hits = {} THEN 0 ELSE CHOOSE i \in hits : \A j \in hits : i <= j

\* strcmp with a NULL name is undefined: the call may crash (-1) or return any slot
type_by_null_name == {-1} \cup 0..(lexer_contexts_len - 1)

(***************************************************************************)
(* ContextStack: the head of context_stack is the top                      *)
(***************************************************************************)
cfg_lexer_get_context_type(s) ==
  IF s.context_stack # <<>> THEN Head(s.context_stack).type ELSE 0

cfg_lexer_get_context_description(s) ==
  IF s.context_stack # <<>> THEN Head(s.context_stack).desc ELSE "configuration"

\* a mutation of cfg_lexer_push_context: the requested type is stored as it is
cfg_lexer_push_context_as_requested(s, type, keywords, desc) ==
  [s EXCEPT !.context_stack = <<[type |-> type, keywords |-> keywords, desc |-> desc]>> \o @]

cfg_lexer_push_context(s, type, keywords, desc) ==
  [s EXCEPT !.context_stack =
      <<[type |-> IF type # 0 THEN type ELSE cfg_lexer_get_context_type(s),
         keywords |-> keywords, desc |-> desc]>> \o @]

cfg_lexer_pop_context(s) ==
  IF s.context_stack # <<>> THEN [s EXCEPT !.context_stack = Tail(@)] ELSE s

(***************************************************************************)
(* TokenBlock.  out is a history field: the tokens cfg_lexer_lex has       *)
(* returned from the block.                                                *)
(***************************************************************************)
cfg_token_block_new == [pos |-> 0, tokens |-> <<>>, out |-> <<>>]

\* a mutation of cfg_token_block_add_token: the token is appended whatever pos is
cfg_token_block_add_token_always(b, token) == [b EXCEPT !.tokens = Append(@, token)]

\* g_assert(self->pos == 0): a failed assertion aborts, nothing is appended
cfg_token_block_add_token(b, token) ==
  IF b.pos = 0 THEN [b EXCEPT !.tokens = Append(@, token)] ELSE b

\* a mutation of cfg_token_block_get_token: pos is advanced before the read
cfg_token_block_get_token_skip(b) ==
  IF b.pos + 1 < Len(b.tokens)
  THEN [block |-> [b EXCEPT !.pos = @ + 2], result |-> Some(b.tokens[b.pos + 2])]
  ELSE [block |-> b, result |-> NULL]

cfg_token_block_get_token(b) ==
  IF b.pos < Len(b.tokens)
  THEN [block |-> [b EXCEPT !.pos = @ + 1], result |-> Some(b.tokens[b.pos + 1])]
  ELSE [block |-> b, result |-> NULL]

cfg_lexer_inject_token_block(s, block) ==
  [s EXCEPT !.token_blocks = Append(@, block)]

cfg_lexer_unput_token(s, yylval) ==
  cfg_lexer_inject_token_block(s, cfg_token_block_add_token(cfg_token_block_new, yylval))

(***************************************************************************)
(* BlockGeneratorRegistry.  A generator is named by its position in        *)
(* self->generators.                                                       *)
(***************************************************************************)
\* a mutation of generator_matches: the context alone has to agree
generator_matches_exact(gen, context, name) ==
  gen.context = context /\ gen.name = name

\* the test of cfg_lexer_find_generator's loop
generator_matches(gen, context, name) ==
  (gen.context = 0 \/ gen.context = context) /\ gen.name = name

\* a mutation of cfg_lexer_find_generator: the last match of the list is returned
cfg_lexer_find_generator_last(s, context, name) ==
  LET hits == {i \in 1..Len(s.generators) : generator_matches(s.generators[i], context, name)}
  IN IF hits = {} THEN NULL ELSE Some(CHOOSE i \in hits : \A j \in hits : i >= j)

cfg_lexer_find_generator(s, context, name) ==
  LET hits == {i \in 1..Len(s.generators) : generator_matches(s.generators[i], context, name)}
  IN IF hits = {} THEN NULL ELSE Some(CHOOSE i \in hits : \A j \in hits : i <= j)

\* a mutation of cfg_lexer_register_block_generator: a duplicate is appended too
cfg_lexer_register_block_generator_no_check(s, context, name, generator, generator_data, generator_data_free) ==
  [self |-> [s EXCEPT !.generators =
                Append(@, [context |-> context, name |-> name, generator |-> generator,
                           generator_data |-> generator_data,
                           generator_data_free |-> generator_data_free])],
   freed |-> <<>>]

\* the result holds the lexer and the data released through generator_data_free
cfg_lexer_register_block_generator(s, context, name, generator, generator_data, generator_data_free) ==
  IF cfg_lexer_find_generator(s, context, name) # NULL
  THEN [self |-> s, freed |-> <<generator_data>>]
  ELSE [self |-> [s EXCEPT !.generators =
                     Append(@, [context |-> context, name |-> name, generator |-> generator,
                                generator_data |-> generator_data,
                                generator_data_free |-> generator_data_free])],
        freed |-> <<>>]

(***************************************************************************)
(* IncludeStack: include_stack[include_depth + 1] is the top frame.  The   *)
(* input of a frame is what its scanner buffer still holds, as a sequence  *)
(* of lexemes; lloc.level names the slot of the frame.                     *)
(***************************************************************************)
MAX_INCLUDE_DEPTH == 3    \* slots of include_stack (cfg-lexer.h has more; kept small here)

CFGI_FILE == "CFGI_FILE"
CFGI_BUFFER == "CFGI_BUFFER"

\* the location a frame starts with (cfg_lexer_init)
InitLloc(slot) ==
  [first_line |-> 1, first_column |-> 1, last_line |-> 1, last_column |-> 1, level |-> slot]

IncludeLevel(type, name, input, slot) ==
  [include_type |-> type, name |-> name, input |-> input, lloc |-> InitLloc(slot)]

TopLevel(s) == s.include_stack[s.include_depth + 1]

\* the files that can be opened
FileSystem ==
  (<<"f">> :> <<"y">>) @@
  (<<"g">> :> <<"include", " ", "h", ";", "z">>) @@
  (<<"h">> :> <<"include", " ", "f", ";">>)

\* a push beyond the last slot is refused
include_depth_exceeded(s) == s.include_depth >= MAX_INCLUDE_DEPTH - 1

include_push(s, level) ==
  [s EXCEPT !.include_stack = Append(@, level), !.include_depth = @ + 1]

\* fails on depth overflow, on a file that cannot be opened, on an include cycle
cfg_lexer_include_file(s, filename) ==
  IF include_depth_exceeded(s) THEN [ok |-> FALSE, self |-> s, overflow |-> TRUE]
  ELSE IF filename \notin DOMAIN FileSystem
          \/ \E i \in 1..Len(s.include_stack) :
               /\ s.include_stack[i].include_type = CFGI_FILE
               /\ s.include_stack[i].name = filename
       THEN [ok |-> FALSE, self |-> s, overflow |-> FALSE]
  ELSE [ok |-> TRUE, overflow |-> FALSE,
        self |-> include_push(s, IncludeLevel(CFGI_FILE, filename, FileSystem[filename],
                                              s.include_depth + 1))]

cfg_lexer_include_buffer(s, name, buffer) ==
  IF include_depth_exceeded(s) THEN [ok |-> FALSE, self |-> s, overflow |-> TRUE]
  ELSE [ok |-> TRUE, overflow |-> FALSE,
        self |-> include_push(s, IncludeLevel(CFGI_BUFFER, name, buffer,
                                              s.include_depth + 1))]

\* end of the top frame's input: the frame is released, the one below resumes
include_pop(s) ==
  [s EXCEPT !.include_stack = SubSeq(@, 1, s.include_depth), !.include_depth = @ - 1]

(***************************************************************************)
(* RawScanner (_cfg_lexer_lex).  A token value (YYSTYPE) holds type, token *)
(* and cptr; scan_lloc is a history field, the location the scanner gave   *)
(* the token.                                                              *)
(***************************************************************************)
Space == " "
Punctuation == {";", "(", ")", "{", "}"}
StringLexemes == {"'f'"}
StringOf(lexeme) == <<"f">>

NoLoc == [first_line |-> 0, first_column |-> 0, last_line |-> 0, last_column |-> 0,
          level |-> 0]
NoValue == [type |-> "", token |-> "", cptr |-> <<>>, scan_lloc |-> NoLoc]

\* the value the scanner's rules store for one lexeme
lexeme_value(lexeme) ==
  CASE lexeme = "@" -> [NoValue EXCEPT !.type = LL_PRAGMA]
    [] lexeme = "include" -> [NoValue EXCEPT !.type = LL_TOKEN, !.token = KW_INCLUDE]
    [] lexeme \in Punctuation -> [NoValue EXCEPT !.type = lexeme]
    [] lexeme \in StringLexemes -> [NoValue EXCEPT !.type = LL_STRING, !.cptr = StringOf(lexeme)]
    [] OTHER -> [NoValue EXCEPT !.type = LL_IDENTIFIER, !.cptr = <<lexeme>>]

\* the token id of a value: the keyword's id for a keyword
value_tok(v) == IF v.type = LL_TOKEN THEN v.token ELSE v.type

\* n lexemes of the top frame are consumed and its location advances
scan_consume(s, n) ==
  LET d == s.include_depth + 1
      l == s.include_stack[d].lloc
  IN [s EXCEPT !.include_stack[d].input = SubSeq(@, n + 1, Len(@)),
               !.include_stack[d].lloc =
                  [l EXCEPT !.first_line = l.last_line, !.first_column = l.last_column,
                            !.last_column = l.last_column + n]]

\* the length of the balanced group the input starts with, 0 if there is none
RECURSIVE block_length(_, _, _, _, _)
block_length(input, open, close, i, depth) ==
  IF i > Len(input) THEN 0
  ELSE IF input[i] = open THEN block_length(input, open, close, i + 1, depth + 1)
  ELSE IF input[i] = close
       THEN IF depth = 1 THEN i ELSE block_length(input, open, close, i + 1, depth - 1)
  ELSE block_length(input, open, close, i + 1, depth)

ScanResult(s, v) ==
  [self |-> s, tok |-> value_tok(v),
   yylval |-> [v EXCEPT !.scan_lloc = TopLevel(s).lloc],
   yylloc |-> TopLevel(s).lloc]

\* capture is NULL, or the pair of delimiters of the balanced-delimiter capture mode
RECURSIVE raw_scan(_, _)
raw_scan(s, capture) ==
  LET input == TopLevel(s).input
  IN IF input = <<>>
     THEN IF s.include_depth = 0
          THEN ScanResult(s, [NoValue EXCEPT !.type = LL_EOF])
          ELSE raw_scan(include_pop(s), capture)
     ELSE IF Head(input) = Space
     THEN raw_scan([scan_consume(s, 1) EXCEPT !.token_pretext = Append(@, Space)], capture)
     ELSE IF capture # NULL
     THEN LET n == IF Head(input) = capture[1][1]
                   THEN block_length(input, capture[1][1], capture[1][2], 1, 0) ELSE 0
          IN IF n = 0
             THEN ScanResult([scan_consume(s, 1) EXCEPT !.token_text = <<Head(input)>>],
                             [NoValue EXCEPT !.type = LL_ERROR])
             ELSE ScanResult([scan_consume(s, n) EXCEPT !.token_text = SubSeq(input, 1, n)],
                             [NoValue EXCEPT !.type = LL_BLOCK,
                                             !.cptr = SubSeq(input, 2, n - 1)])
     ELSE ScanResult([scan_consume(s, 1) EXCEPT !.token_text = <<Head(input)>>],
                     lexeme_value(Head(input)))

(***************************************************************************)
(* User defined blocks: struct _CfgBlock is content and arg_defs           *)
(***************************************************************************)
VARARGS == <<"__VARARGS__">>

\* _resolve_unknown_blockargs_as_varargs over the keys of args in the order given
RECURSIVE resolve_varargs(_, _, _)
resolve_varargs(defs, args, order) ==
  IF order = <<>> THEN <<>>
  ELSE (IF cfg_args_get(defs, Head(order)) = NULL
        THEN Head(order) \o <<"(">> \o args[Head(order)] \o <<")", Space>>
        ELSE <<>>)
       \o resolve_varargs(defs, args, Tail(order))

\* a mutation of fill_varargs: the keys that arg_defs defines are collected as well
fill_varargs_known_too(block, args, order) ==
  cfg_args_set(args, VARARGS, resolve_varargs(cfg_args_new, args, order))

\* order: the order in which g_hash_table_foreach visits the keys of args
fill_varargs(block, args, order) ==
  cfg_args_set(args, VARARGS, resolve_varargs(block.arg_defs, args, order))

Orders(S) == {o \in SeqsUpTo(S, Cardinality(S)) : Len(o) = Cardinality(S) /\
                                                 \A k \in S : \E i \in 1..Len(o) : o[i] = k}

BufferName(context, name) ==
  LET n == cfg_lexer_lookup_context_name_by_type(context)
  IN <<IF n = NULL THEN "(null)" ELSE n[1], " block ">> \o name

\* the result holds: success, the lexer, whether the include depth was exceeded,
\* and the text that was pushed
cfg_block_generate(s, context, name, args, block, env, order) ==
  LET value == cfg_lexer_subst_args(Some(s.globals), Some(block.arg_defs),
                                    Some(fill_varargs(block, args, order)), env,
                                    block.content)
  IN IF value = NULL
     THEN [ok |-> FALSE, self |-> s, overflow |-> FALSE, value |-> NULL]
     ELSE LET r == cfg_lexer_include_buffer(s, BufferName(context, name), value[1].str)
          IN [ok |-> r.ok, self |-> r.self, overflow |-> r.overflow,
              value |-> Some(value[1].str)]

(***************************************************************************)
(* LexerFacade: the state after cfg_lexer_new, and the pieces of            *)
(* cfg_lexer_lex                                                           *)
(***************************************************************************)
VERSION_VALUE_2_1 == 513      \* 0x0201
VERSION_VALUE_3_0 == 768      \* 0x0300

cfg_lexer_new(filename, input) ==
  [include_stack |-> <<IncludeLevel(CFGI_FILE, filename, input, 0)>>,
   include_depth |-> 0,
   context_stack |-> <<>>,
   token_blocks |-> <<>>,
   generators |-> <<>>,
   globals |-> cfg_args_new,
   token_text |-> <<>>,
   token_pretext |-> <<>>,
   preprocess_output |-> <<>>,
   preprocess_suppress_tokens |-> 0]

cfg_set_version(cfg, version) == [cfg EXCEPT !.version = version]

\* gen->generator_data && gen->generator_data_free
generator_has_data(gen) == gen.generator_data # NULL /\ gen.generator_data_free # ""

\* what cfg_lexer_free leaves behind when data_free has been called on data: self is
\* the structure as the code leaves it, released is what was released.  The strings
\* (token_text, token_pretext, preprocess_output) are released with their last content.
lexer_freed(s, data) ==
  [self |-> [s EXCEPT !.include_stack = <<[@[1] EXCEPT !.name = <<>>, !.input = <<>>]>>,
                      !.include_depth = 0,
                      !.context_stack = <<>>, !.generators = <<>>,
                      !.globals = cfg_args_new, !.token_blocks = <<>>],
   released |-> [levels |-> [i \in 1..(s.include_depth + 1) |-> s.include_stack[i]],
                 contexts |-> s.context_stack,
                 generators |-> s.generators,
                 data |-> data,
                 blocks |-> s.token_blocks]]

\* a mutation of cfg_lexer_free: the generators go, their data stays
cfg_lexer_free_keep_data(s) == lexer_freed(s, <<>>)

cfg_lexer_free(s) ==
  LET with_data == SelectSeq(s.generators, generator_has_data)
  IN lexer_freed(s, [i \in 1..Len(with_data) |-> with_data[i].generator_data])

\* the process environment seen by the block expander
LexEnv == <<>>

\* the while loop over self->token_blocks: the first block that still has a token
\* gives it, the exhausted blocks before it are unlinked and freed
RECURSIVE lex_drain(_)
lex_drain(s) ==
  IF s.token_blocks = <<>> THEN [self |-> s, token |-> NULL, freed |-> <<>>]
  ELSE LET g == cfg_token_block_get_token(Head(s.token_blocks))
       IN IF g.result # NULL
          THEN [self |-> [s EXCEPT !.token_blocks[1] = g.block], token |-> g.result,
                freed |-> <<>>]
          ELSE LET r == lex_drain([s EXCEPT !.token_blocks = Tail(@)])
               IN [r EXCEPT !.freed = <<Head(s.token_blocks)>> \o @]

\* a mutation of lex_injected_lloc: the location of the outermost frame
lex_injected_lloc_bottom(s) == s.include_stack[1].lloc

\* the location given to an injected token
lex_injected_lloc(s) == s.include_stack[s.include_depth + 1].lloc

\* the capture mode the scanner is put in for the current context
lex_capture(s) ==
  IF cfg_lexer_get_context_type(s) = LL_CONTEXT_BLOCK_CONTENT THEN Some(<<"{", "}">>)
  ELSE IF cfg_lexer_get_context_type(s) = LL_CONTEXT_BLOCK_ARG THEN Some(<<"(", ")">>)
  ELSE NULL

\* the raw scan and the echo of the pretext
lex_scan(s) ==
  LET r == raw_scan([s EXCEPT !.token_text = <<>>, !.token_pretext = <<>>], lex_capture(s))
  IN [r EXCEPT !.self.preprocess_output = @ \o r.self.token_pretext]

\* a mutation of lex_intercept: include is intercepted in every context
lex_intercept_any_context(s, tok, yylval) ==
  IF tok = LL_PRAGMA THEN "pragma"
  ELSE IF tok = KW_INCLUDE THEN "include"
  ELSE IF tok = LL_IDENTIFIER
          /\ cfg_lexer_find_generator(s, cfg_lexer_get_context_type(s), yylval.cptr) # NULL
       THEN "block_ref"
  ELSE "plain"

\* which branch the token takes at the exit label
lex_intercept(s, tok, yylval) ==
  IF tok = LL_PRAGMA THEN "pragma"
  ELSE IF tok = KW_INCLUDE /\ cfg_lexer_get_context_type(s) # LL_CONTEXT_PRAGMA
       THEN "include"
  ELSE IF tok = LL_IDENTIFIER
          /\ cfg_lexer_find_generator(s, cfg_lexer_get_context_type(s), yylval.cptr) # NULL
       THEN "block_ref"
  ELSE "plain"

\* a mutation of lex_version: the context is not consulted
lex_version_any_context(cfg, s) ==
  IF cfg.version = 0 /\ cfg.parsed_version # 0
  THEN cfg_set_version(cfg, cfg.parsed_version)
  ELSE IF cfg.version = 0 /\ cfg.parsed_version = 0
       THEN cfg_set_version(cfg, VERSION_VALUE_2_1)
  ELSE cfg

\* msg_warning of the last branch: the configuration file has no version number
lex_version_warning(cfg, s) ==
  cfg.version = 0 /\ cfg.parsed_version = 0
  /\ cfg_lexer_get_context_type(s) # LL_CONTEXT_PRAGMA

\* the two version branches that end the if chain
lex_version(cfg, s) ==
  IF cfg.version = 0 /\ cfg.parsed_version # 0
  THEN cfg_set_version(cfg, cfg.parsed_version)
  ELSE IF cfg.version = 0 /\ cfg.parsed_version = 0
          /\ cfg_lexer_get_context_type(s) # LL_CONTEXT_PRAGMA
       THEN cfg_set_version(cfg, VERSION_VALUE_2_1)
  ELSE cfg

\* a mutation of lex_echo: the suppression counter is not consulted
lex_echo_always(s, injected) ==
  IF ~injected THEN [s EXCEPT !.preprocess_output = @ \o s.token_text] ELSE s

\* the echo of the token's text before the token is returned
lex_echo(s, injected) ==
  IF ~injected
  THEN IF s.preprocess_suppress_tokens = 0
       THEN [s EXCEPT !.preprocess_output = @ \o s.token_text]
       ELSE s
  ELSE s

suppress_enter(s) == [s EXCEPT !.preprocess_suppress_tokens = @ + 1]

\* a mutation of suppress_leave_error: the counter is left as it is
suppress_leave_error_skip(s) == s

\* preprocess_suppress_tokens-- before a return of LL_ERROR
suppress_leave_error(s) == [s EXCEPT !.preprocess_suppress_tokens = @ - 1]

\* preprocess_suppress_tokens-- on the paths that go on
suppress_leave(s) == [s EXCEPT !.preprocess_suppress_tokens = @ - 1]

(***************************************************************************)
(* Inputs of the substitutor                                               *)
(***************************************************************************)
SubstChars == {"a", BT, "p", "P"}
SubstTexts == SeqsUpTo(SubstChars, MaxLen)

KeyP == <<"p">>
ArgsChoices == {NULL, Some(cfg_args_new), Some(cfg_args_set(cfg_args_new, KeyP, <<"1">>)),
                Some(cfg_args_set(cfg_args_new, KeyP, <<>>))}
DefsChoices == {NULL, Some(cfg_args_new), Some(cfg_args_set(cfg_args_new, KeyP, <<"2">>))}
GlobalsChoices == {NULL, Some(cfg_args_new),
                   Some(cfg_args_set(cfg_args_new, KeyP, <<BT, "a", BT>>))}
EnvChoices == {<<>>, (KeyP :> <<"4">>) @@ (<<"a">> :> <<BT>>)}

\* scenario S2 of the specification
S2Text == <<"d","e","s","t","(",BT,"h","o","s","t","_","n","a","m","e",BT,":",
            BT,"p","o","r","t",BT,")">>
S2HostName == <<"h","o","s","t","_","n","a","m","e">>
S2Port == <<"p","o","r","t">>
S2Globals == Some(cfg_args_set(cfg_args_new, S2HostName, <<"h","1">>))
S2Defs == Some(cfg_args_set(cfg_args_new, S2Port, <<"5","1","4">>))
S2Args == Some(cfg_args_set(cfg_args_new, S2Port, <<"6","5","1","4">>))
S2Result == <<"d","e","s","t","(","h","1",":","6","5","1","4",")">>

SubstIdle == [pc |-> "idle", globals |-> NULL, defs |-> NULL, args |-> NULL, env |-> <<>>,
              cptr |-> <<>>, result |-> NULL]


(***************************************************************************)
(* KeywordResolver: cfg_lexer_lookup_keyword.  A keyword table is the      *)
(* sequence of its entries up to the terminator (kw_name NULL); a context  *)
(* frame points to a table by its index in keyword_tables.  An entry is    *)
(* named by <<frame, i>>: the position of the frame in context_stack and   *)
(* the position of the entry in the frame's table.                         *)
(***************************************************************************)
CFG_KEYWORD_STOP == <<"@", "S", "T", "O", "P", "@">>
KWS_NORMAL == "KWS_NORMAL"
KWS_OBSOLETE == "KWS_OBSOLETE"
MSG_RESERVED_WORD_USED == "MSG_RESERVED_WORD_USED"
MSG_OBSOLATED_KEYWORD_USED == "MSG_OBSOLATED_KEYWORD_USED"

\* a mutation of keyword_is_stop: the sentinel is an entry like any other
keyword_is_stop_never(kw_name) == FALSE

\* strcmp(keywords[i].kw_name, CFG_KEYWORD_STOP) == 0
keyword_is_stop(kw_name) == kw_name = CFG_KEYWORD_STOP

\* a mutation of keyword_char_differs: the characters are compared as they are
keyword_char_differs_strcmp(t, k) == t # k

\* the test of the loop over j: TRUE makes the loop break at this position
keyword_char_differs(t, k) ==
  IF t = "-" \/ t = "_" THEN k # "_" ELSE t # k

\* the loop over j: the position it stops at
RECURSIVE keyword_cmp(_, _, _)
keyword_cmp(token, kw_name, j) ==
  IF j > Len(token) \/ j > Len(kw_name) THEN j
  ELSE IF keyword_char_differs(token[j], kw_name[j]) THEN j
  ELSE keyword_cmp(token, kw_name, j + 1)

\* token[j] == 0 && keywords[i].kw_name[j] == 0 after the loop
keyword_matches(token, kw_name) ==
  LET j == keyword_cmp(token, kw_name, 1)
  IN j > Len(token) /\ j > Len(kw_name)

cfg_check_current_config_version(cfg, req) == cfg.version >= req

\* a mutation of keyword_after_gate: the next entry of the table is tried
keyword_after_gate_continue == "next_entry"

\* the break after the reserved word warning leaves the loop over the table
keyword_after_gate == "next_frame"

\* a mutation of keyword_status_after_match: the status is left as it is
keyword_status_after_match_keep(kw_status) == kw_status

\* keywords[i].kw_status = KWS_NORMAL
keyword_status_after_match(kw_status) == KWS_NORMAL

\* what a resolution has done so far: the tables, the warnings emitted, the
\* entries whose spelling was compared and those that were found to match
NoTrace(tables) == [tables |-> tables, warnings |-> <<>>, compared |-> <<>>, matched |-> <<>>]

\* the loop over the entries of the table of frame f, from entry i on
RECURSIVE lookup_entries(_, _, _, _, _, _)
lookup_entries(cfg, stack, f, i, token, tr) ==
  LET t == stack[f].keywords[1]
      kw == tr.tables[t][i]
      tr1 == [tr EXCEPT !.compared = Append(@, <<f, i>>)]
      tr2 == [tr1 EXCEPT !.matched = Append(@, <<f, i>>)]
  IN IF i > Len(tr.tables[t]) THEN [done |-> FALSE, trace |-> tr]
     ELSE IF keyword_is_stop(kw.kw_name)
     THEN [done |-> TRUE, tok |-> LL_IDENTIFIER, type |-> "", token |-> "",
           cptr |-> token, hit |-> NULL, trace |-> tr]
     ELSE IF ~keyword_matches(token, kw.kw_name)
     THEN lookup_entries(cfg, stack, f, i + 1, token, tr1)
     ELSE IF ~cfg_check_current_config_version(cfg, kw.kw_req_version)
     THEN LET tr3 == [tr2 EXCEPT !.warnings =
                        Append(@, [id |-> MSG_RESERVED_WORD_USED, keyword |-> kw.kw_name,
                                   table |-> t, entry |-> i])]
          IN IF keyword_after_gate = "next_frame"
             THEN [done |-> FALSE, trace |-> tr3]
             ELSE lookup_entries(cfg, stack, f, i + 1, token, tr3)
     ELSE LET tr3 == IF kw.kw_status = KWS_OBSOLETE
                     THEN [tr2 EXCEPT !.warnings =
                             Append(@, [id |-> MSG_OBSOLATED_KEYWORD_USED,
                                        keyword |-> kw.kw_name, table |-> t, entry |-> i])]
                     ELSE tr2
          IN [done |-> TRUE, tok |-> kw.kw_token, type |-> LL_TOKEN, token |-> kw.kw_token,
              cptr |-> <<>>, hit |-> Some(<<f, i>>),
              trace |-> [tr3 EXCEPT !.tables[t][i].kw_status =
                                       keyword_status_after_match(@)]]

\* the loop over the context frames, from the top (frame 1) down
RECURSIVE lookup_frames(_, _, _, _, _)
lookup_frames(cfg, stack, f, token, tr) ==
  IF f > Len(stack)
  THEN [done |-> TRUE, tok |-> LL_IDENTIFIER, type |-> "", token |-> "", cptr |-> token,
        hit |-> NULL, trace |-> tr]
  ELSE IF stack[f].keywords = NULL THEN lookup_frames(cfg, stack, f + 1, token, tr)
  ELSE LET r == lookup_entries(cfg, stack, f, 1, token, tr)
       IN IF r.done THEN r ELSE lookup_frames(cfg, stack, f + 1, token, r.trace)

cfg_lexer_lookup_keyword(s, cfg, tables, token) ==
  lookup_frames(cfg, s.context_stack, 1, token, NoTrace(tables))


\* the keyword tables of the model
KeywordEntry(name, token, req_version, status) ==
  [kw_name |-> name, kw_token |-> token, kw_req_version |-> req_version,
   kw_status |-> status, kw_explain |-> "explain"]

KeywordTables ==
  << <<KeywordEntry(<<"f", "_", "l">>, "KW_FLUSH", VERSION_VALUE_3_0, KWS_OBSOLETE),
       KeywordEntry(<<"f", "_", "l">>, "KW_FLUSH_OLD", 0, KWS_NORMAL),
       KeywordEntry(<<"s">>, "KW_S", 0, KWS_OBSOLETE),
       KeywordEntry(<<"a", "-", "b">>, "KW_AB", 0, KWS_NORMAL)>>,
     <<KeywordEntry(CFG_KEYWORD_STOP, "", 0, KWS_NORMAL),
       KeywordEntry(<<"s">>, "KW_S_STOPPED", 0, KWS_NORMAL)>>,
     <<KeywordEntry(<<"f", "_", "l">>, "KW_FLUSH_LOW", 0, KWS_NORMAL),
       KeywordEntry(<<"s">>, "KW_S_LOW", 0, KWS_NORMAL)>> >>

\* the identifiers that are resolved
KeywordTokens ==
  {<<"f", "_", "l">>, <<"f", "-", "l">>, <<"f", ".", "l">>, <<"f", "_">>,
   <<"f", "_", "l", "l">>, <<"s">>, <<"a", "-", "b">>}

\* what is kept of the resolution that returned last
NoKw ==
  [token |-> <<>>, stack |-> <<>>, version |-> 0, warnings |-> <<>>, compared |-> <<>>,
   matched |-> <<>>, hit |-> NULL]

\* no function is being looked at on its own
NoCall == [fn |-> "none"]


(***************************************************************************)
(* The lexer in use: the calls in progress.  A frame of callstack is a     *)
(* call of cfg_lexer_lex (fn = "lex") or of cfg_parser_parse (fn =         *)
(* "parse"); pc is where the call stands.  The field h of a frame holds    *)
(* history only: what the call has seen since it was entered.              *)
(***************************************************************************)
MaxBlocks == 2       \* token blocks the grammar injects in one run
MaxContext == 1      \* context frames the main grammar keeps pushed
MaxReg == 3          \* block generators the grammar registers in one run
MaxLookups == 2      \* identifiers resolved in one run
MaxKwFrames == 2     \* context frames with keyword tables
MaxContextCalls == 4 \* calls of push_context and pop_context in one run
MaxBlockCalls == 5   \* calls of add_token and get_token on one token block
MaxReferences == 2   \* references to one user defined block in one run

NoGhost ==
  [entry_suppress |-> 0,     \* preprocess_suppress_tokens when the call was entered
   pass_echo |-> <<>>,       \* preprocess_output at the last relex
   pass_depth |-> 0,         \* include_depth at the last relex
   met |-> "",               \* the token met at the exit label in the last pass
   met_ctx |-> 0,            \* the context type at that moment
   branch |-> "",            \* the branch that token took
   ref |-> "none",           \* the fate of the block reference of the last pass
   gen_calls |-> 0,          \* calls of the generator for that reference
   gen_value |-> NULL,       \* the text the generator has pushed in this pass
   after_gen |-> NULL,       \* the text the generator pushed in the pass before
   overflow |-> NULL,        \* the include stack before a push refused for depth
   cfg_before |-> [version |-> 0, parsed_version |-> 0],  \* the configuration met by
   cfg_after |-> [version |-> 0, parsed_version |-> 0],   \* the version branches, and left
   warned |-> FALSE]         \* whether the missing version was reported

NoFrame ==
  [fn |-> "", pc |-> "", tok |-> "", yylval |-> NoValue, yylloc |-> NoLoc,
   injected |-> FALSE, include_file |-> <<>>, gen |-> 0,
   parser |-> "", vals |-> <<>>, key |-> NULL, args |-> cfg_args_new, h |-> NoGhost]

NoRet ==
  [fn |-> "none", tok |-> "", yylval |-> NoValue, yylloc |-> NoLoc, injected |-> FALSE,
   success |-> FALSE, args |-> cfg_args_new, h |-> NoGhost,
   exit_suppress |-> 0, exit_depth |-> 0, exit_stack |-> <<>>, top_lloc |-> NoLoc,
   blocks_left |-> 0,
   text |-> <<>>, pretext |-> <<>>, echo |-> <<>>, kw |-> NoKw]

Top == callstack[Len(callstack)]
SetTop(f) == [callstack EXCEPT ![Len(callstack)] = f]

NewLexFrame(s) ==
  [NoFrame EXCEPT !.fn = "lex", !.pc = "relex",
                  !.h.entry_suppress = s.preprocess_suppress_tokens]

NewParseFrame(parser) == [NoFrame EXCEPT !.fn = "parse", !.pc = "grammar", !.parser = parser]

\* cfg_lexer_lex returns tok: the frame is left, a calling grammar gets the token
ReturnLex(s, f, tok) ==
  LET rest == SubSeq(callstack, 1, Len(callstack) - 1)
  IN /\ ret' = [NoRet EXCEPT !.fn = "lex", !.tok = tok, !.yylval = f.yylval,
                             !.yylloc = f.yylloc, !.injected = f.injected, !.h = f.h,
                             !.exit_suppress = s.preprocess_suppress_tokens,
                             !.exit_depth = s.include_depth,
                             !.exit_stack = s.include_stack,
                             !.blocks_left = Len(s.token_blocks),
                             !.top_lloc = TopLevel(s).lloc,
                             !.text = s.token_text, !.pretext = s.token_pretext,
                             !.echo = s.preprocess_output]
     /\ callstack' =
          IF rest # <<>> /\ rest[Len(rest)].fn = "parse"
          THEN [rest EXCEPT ![Len(rest)].vals = Append(@, [tok |-> tok,
                                                           cptr |-> f.yylval.cptr])]
          ELSE rest

\* cfg_parser_parse returns
ReturnParse(success, args) ==
  /\ ret' = [NoRet EXCEPT !.fn = "parse", !.success = success, !.args = args]
  /\ callstack' = SubSeq(callstack, 1, Len(callstack) - 1)

(***************************************************************************)
(* cfg_lexer_lex, from the relex label to its next call or return          *)
(***************************************************************************)
LexPass ==
  /\ callstack # <<>> /\ Top.fn = "lex" /\ Top.pc = "relex"
  /\ LET d == lex_drain(lexer)
         injected == d.token # NULL
         sc == IF injected
               THEN [self |-> d.self, tok |-> value_tok(d.token[1]), yylval |-> d.token[1],
                     yylloc |-> lex_injected_lloc(d.self)]
               ELSE lex_scan(d.self)
         s1 == sc.self
         branch == lex_intercept(s1, sc.tok, sc.yylval)
         f1 == [Top EXCEPT !.tok = sc.tok, !.yylval = sc.yylval, !.yylloc = sc.yylloc,
                           !.injected = injected,
                           !.h = [@ EXCEPT !.pass_echo = lexer.preprocess_output,
                                           !.pass_depth = d.self.include_depth,
                                           !.met = sc.tok,
                                           !.met_ctx = cfg_lexer_get_context_type(s1),
                                           !.branch = branch,
                                           !.ref = IF branch = "block_ref" THEN "parsing"
                                                   ELSE "none",
                                           !.gen_calls = 0,
                                           !.gen_value = NULL,
                                           !.after_gen = Top.h.gen_value]]
         warned == branch = "plain" /\ lex_version_warning(configuration, s1)
     IN /\ hist' = [hist EXCEPT
                      !.freed_blocks = IF d.freed # <<>> THEN d.freed ELSE @,
                      !.version_warnings = IF warned THEN @ + 1 ELSE @]
        /\ sub' = sub
        /\ CASE branch = "pragma" ->
                  /\ lexer' = cfg_lexer_push_context(
                                 [s1 EXCEPT !.preprocess_output = Append(@, "@")],
                                 LL_CONTEXT_PRAGMA, NULL, "pragma")
                  /\ callstack' = Append(SetTop([f1 EXCEPT !.pc = "pragma"]),
                                         NewParseFrame("pragma"))
                  /\ UNCHANGED <<configuration, ret>>
             [] branch = "include" ->
                  /\ lexer' = suppress_enter(s1)
                  /\ callstack' = Append(SetTop([f1 EXCEPT !.pc = "include_name"]),
                                         NewLexFrame(suppress_enter(s1)))
                  /\ UNCHANGED <<configuration, ret>>
             [] branch = "block_ref" ->
                  /\ lexer' = cfg_lexer_push_context(suppress_enter(s1),
                                 LL_CONTEXT_BLOCK_REF, NULL, "block reference")
                  /\ callstack' =
                       Append(SetTop([f1 EXCEPT !.pc = "block_ref",
                                        !.gen = cfg_lexer_find_generator(
                                                  s1, cfg_lexer_get_context_type(s1),
                                                  sc.yylval.cptr)[1]]),
                              NewParseFrame("block_ref"))
                  /\ UNCHANGED <<configuration, ret>>
             [] OTHER ->
                  LET s2 == lex_echo(s1, injected)
                      s3 == IF injected
                            THEN [s2 EXCEPT !.token_blocks[1].out = Append(@, sc.yylval)]
                            ELSE s2
                      f2 == [f1 EXCEPT !.h.cfg_before = configuration,
                                       !.h.cfg_after = lex_version(configuration, s1),
                                       !.h.warned = warned]
                  IN /\ configuration' = lex_version(configuration, s1)
                     /\ lexer' = s3
                     /\ ReturnLex(s3, f2, sc.tok)
  /\ UNCHANGED <<keyword_tables, call>>

\* after cfg_parser_parse(&pragma_parser): failure is returned, success restarts
LexAfterPragma ==
  /\ callstack # <<>> /\ Top.fn = "lex" /\ Top.pc = "pragma"
  /\ IF ~ret.success
     THEN ReturnLex(lexer, Top, LL_ERROR)
     ELSE callstack' = SetTop([Top EXCEPT !.pc = "relex"]) /\ ret' = ret
  /\ UNCHANGED <<sub, lexer, configuration, hist>>
  /\ UNCHANGED <<keyword_tables, call>>

\* after the first recursive cfg_lexer_lex of the include branch: the file name
LexAfterIncludeName ==
  /\ callstack # <<>> /\ Top.fn = "lex" /\ Top.pc = "include_name"
  /\ LET f1 == [Top EXCEPT !.tok = ret.tok, !.yylval = ret.yylval, !.yylloc = ret.yylloc]
     IN IF ret.tok # LL_STRING /\ ret.tok # LL_IDENTIFIER
        THEN /\ lexer' = suppress_leave_error(lexer)
             /\ ReturnLex(suppress_leave_error(lexer), f1, LL_ERROR)
        ELSE /\ lexer' = lexer
             /\ callstack' = Append(SetTop([f1 EXCEPT !.pc = "include_semicolon",
                                              !.include_file = ret.yylval.cptr]),
                                    NewLexFrame(lexer))
             /\ ret' = ret
  /\ UNCHANGED <<sub, configuration, hist>>
  /\ UNCHANGED <<keyword_tables, call>>

\* a mutation of lex_after_include: the result of cfg_lexer_include_file is not looked at
lex_after_include_ignore(ok) == "relex"

\* what follows cfg_lexer_include_file: goto relex, or return LL_ERROR
lex_after_include(ok) == IF ok THEN "relex" ELSE "error"

\* after the second recursive cfg_lexer_lex: the semicolon, then cfg_lexer_include_file
LexAfterIncludeSemicolon ==
  /\ callstack # <<>> /\ Top.fn = "lex" /\ Top.pc = "include_semicolon"
  /\ LET f1 == [Top EXCEPT !.tok = ret.tok, !.yylval = ret.yylval, !.yylloc = ret.yylloc]
         r == cfg_lexer_include_file(lexer, Top.include_file)
     IN IF ret.tok # ";"
        THEN /\ lexer' = suppress_leave_error(lexer)
             /\ ReturnLex(suppress_leave_error(lexer), f1, LL_ERROR)
        ELSE LET f2 == [f1 EXCEPT !.h.overflow = IF r.overflow
                                                 THEN Some(lexer.include_stack) ELSE @]
             IN IF lex_after_include(r.ok) = "error"
                THEN /\ lexer' = suppress_leave_error(r.self)
                     /\ ReturnLex(suppress_leave_error(r.self), f2, LL_ERROR)
                ELSE /\ lexer' = suppress_leave(r.self)
                     /\ callstack' = SetTop([f2 EXCEPT !.pc = "relex"])
                     /\ ret' = ret
  /\ UNCHANGED <<sub, configuration, hist>>
  /\ UNCHANGED <<keyword_tables, call>>

\* cfg_lexer_generate_block: the generator function of gen is called
cfg_lexer_generate_block(s, context, name, gen, args, order) ==
  cfg_block_generate(s, context, name, args, gen.generator_data, LexEnv, order)

\* a mutation of lex_after_generate: the generator's result is not looked at
lex_after_generate_ignore(success) == "relex"

\* what follows the generator call: goto relex, or return LL_ERROR
lex_after_generate(success) == IF success THEN "relex" ELSE "error"

\* after cfg_parser_parse(&block_ref_parser): the generator is run on the arguments
LexAfterBlockRef ==
  /\ callstack # <<>> /\ Top.fn = "lex" /\ Top.pc = "block_ref"
  /\ IF ret.success
     THEN \E order \in Orders(DOMAIN ret.args) :
            LET s1 == suppress_leave(lexer)
                r == cfg_lexer_generate_block(s1, cfg_lexer_get_context_type(s1),
                                              Top.yylval.cptr, s1.generators[Top.gen],
                                              ret.args, order)
                f1 == [Top EXCEPT !.h.gen_calls = @ + 1,
                                  !.h.ref = IF r.ok THEN "generated" ELSE "generator_failed",
                                  !.h.gen_value = IF r.ok THEN r.value ELSE NULL,
                                  !.h.overflow = IF r.overflow THEN Some(s1.include_stack)
                                                 ELSE @]
            IN /\ lexer' = r.self
               /\ IF lex_after_generate(r.ok) = "relex"
                  THEN callstack' = SetTop([f1 EXCEPT !.pc = "relex"]) /\ ret' = ret
                  ELSE ReturnLex(r.self, f1, LL_ERROR)
     ELSE /\ lexer' = suppress_leave_error(lexer)
          /\ ReturnLex(suppress_leave_error(lexer), [Top EXCEPT !.h.ref = "parse_failed"],
                       LL_ERROR)
  /\ UNCHANGED <<sub, configuration, hist>>
  /\ UNCHANGED <<keyword_tables, call>>

(***************************************************************************)
(* cfg_parser_parse: the grammar of the pragma and of the block reference  *)
(* arguments, as far as it drives the lexer.  The parser's context is      *)
(* pushed when the parse starts and popped when it returns.                *)
(*   pragma:     include <string or identifier>  |  version <number>       *)
(*   block_ref:  ( <identifier> <balanced group> ... )                     *)
(***************************************************************************)
grammar_next(f) ==
  LET n == Len(f.vals)
      last == f.vals[n]
  IN IF n = 0 THEN "lex"
     ELSE IF f.parser = "pragma"
     THEN IF n = 1
          THEN IF last.tok = KW_INCLUDE
                  \/ (last.tok = LL_IDENTIFIER /\ last.cptr = <<"version">>)
               THEN "lex" ELSE "fail"
          ELSE IF f.vals[1].tok = KW_INCLUDE
          THEN IF last.tok \in {LL_STRING, LL_IDENTIFIER} THEN "include" ELSE "fail"
          ELSE IF last.tok = LL_IDENTIFIER THEN "version" ELSE "fail"
     ELSE IF n = 1 THEN IF last.tok = "(" THEN "lex" ELSE "fail"
     ELSE IF f.key # NULL THEN IF last.tok = LL_BLOCK THEN "value" ELSE "fail"
     ELSE IF last.tok = ")" THEN "accept"
     ELSE IF last.tok = LL_IDENTIFIER THEN "key"
     ELSE "fail"

\* the grammar asks the lexer for its next token
ParseCallLex ==
  /\ callstack # <<>> /\ Top.fn = "parse"
  /\ LET next == grammar_next(Top)
         last == Top.vals[Len(Top.vals)]
     IN /\ next \in {"lex", "key", "value"}
        /\ LET s1 == CASE next = "key" ->
                          cfg_lexer_push_context(lexer, LL_CONTEXT_BLOCK_ARG, NULL,
                                                 "block argument")
                       [] next = "value" -> cfg_lexer_pop_context(lexer)
                       [] OTHER -> lexer
               f1 == CASE next = "key" -> [Top EXCEPT !.key = Some(last.cptr)]
                       [] next = "value" ->
                          [Top EXCEPT !.key = NULL,
                                      !.args = cfg_args_set(@, Top.key[1], last.cptr)]
                       [] OTHER -> Top
           IN /\ lexer' = s1
              /\ callstack' = Append(SetTop(f1), NewLexFrame(s1))
  /\ UNCHANGED <<sub, configuration, ret, hist>>
  /\ UNCHANGED <<keyword_tables, call>>

\* the grammar accepts: @include pushes the file, @version stores the parsed version
ParseAccept ==
  /\ callstack # <<>> /\ Top.fn = "parse"
  /\ LET next == grammar_next(Top)
         last == Top.vals[Len(Top.vals)]
     IN /\ \/ next \in {"accept", "version"}
           \/ next = "include" /\ cfg_lexer_include_file(lexer, last.cptr).ok
        /\ lexer' = cfg_lexer_pop_context(
                      IF next = "include" THEN cfg_lexer_include_file(lexer, last.cptr).self
                      ELSE lexer)
        /\ configuration' = IF next = "version"
                            THEN [configuration EXCEPT !.parsed_version = VERSION_VALUE_3_0]
                            ELSE configuration
        /\ ReturnParse(TRUE, Top.args)
  /\ UNCHANGED <<sub, hist>>
  /\ UNCHANGED <<keyword_tables, call>>

\* the grammar meets a syntax error, or its @include fails
ParseFail ==
  /\ callstack # <<>> /\ Top.fn = "parse"
  /\ LET next == grammar_next(Top)
         last == Top.vals[Len(Top.vals)]
         r == cfg_lexer_include_file(lexer, last.cptr)
         n == Len(callstack)
     IN /\ \/ next = "fail"
           \/ next = "include" /\ ~r.ok
        /\ lexer' = cfg_lexer_pop_context(
                      IF Top.key # NULL THEN cfg_lexer_pop_context(lexer) ELSE lexer)
        /\ ret' = [NoRet EXCEPT !.fn = "parse", !.success = FALSE]
        /\ callstack' =
             IF next = "include" /\ r.overflow
             THEN [SubSeq(callstack, 1, n - 1) EXCEPT
                     ![n - 1].h.overflow = Some(lexer.include_stack)]
             ELSE SubSeq(callstack, 1, n - 1)
  /\ UNCHANGED <<sub, configuration, hist>>
  /\ UNCHANGED <<keyword_tables, call>>

(***************************************************************************)
(* The main grammar: the caller of the lexer's interface                   *)
(***************************************************************************)
TokenA == [NoValue EXCEPT !.type = LL_STRING, !.cptr = <<"a">>]
TokenB == [NoValue EXCEPT !.type = LL_TOKEN, !.token = "KW_SOURCE"]
TokenC == [NoValue EXCEPT !.type = ";"]
InjectChoices == {<<TokenA, TokenB, TokenC>>}

RECURSIVE block_fill(_, _)
block_fill(block, tokens) ==
  IF tokens = <<>> THEN block
  ELSE block_fill(cfg_token_block_add_token(block, Head(tokens)), Tail(tokens))

\* the user defined blocks of the configuration: (context, name, content, arg_defs)
BlockDefs ==
  <<[context |-> LL_CONTEXT_SOURCE, name |-> <<"b">>,
     content |-> <<BT, "p", BT, ";">>,
     arg_defs |-> cfg_args_set(cfg_args_new, <<"p">>, <<"d">>)],
    [context |-> 0, name |-> <<"r">>, content |-> <<"r", "(", ")">>,
     arg_defs |-> cfg_args_new],
    [context |-> 0, name |-> <<"e">>, content |-> <<BT, "x">>, arg_defs |-> cfg_args_new]>>

\* the block definitions of the configuration read at the start: the first block is
\* defined twice
InitDefs == BlockDefs \o <<BlockDefs[1]>>

\* the contexts and names of the block definitions that are registered one by one
RegContexts == {0, LL_CONTEXT_SOURCE, LL_CONTEXT_DESTINATION}
RegNames == {<<"b">>, <<"r">>}

BlockData(id, c) == [id |-> id, content |-> c.content, arg_defs |-> c.arg_defs]

\* the lexer after the block definitions defs have been registered, in order
RECURSIVE register_all(_, _, _)
register_all(s, defs, id) ==
  IF defs = <<>> THEN s
  ELSE register_all(cfg_lexer_register_block_generator(
                      s, Head(defs).context, Head(defs).name, "cfg_block_generate",
                      BlockData(id, Head(defs)), "cfg_block_free").self,
                    Tail(defs), id + 1)

\* the data released while the block definitions defs are registered, in order
RECURSIVE register_all_freed(_, _, _)
register_all_freed(s, defs, id) ==
  IF defs = <<>> THEN <<>>
  ELSE LET r == cfg_lexer_register_block_generator(
                  s, Head(defs).context, Head(defs).name, "cfg_block_generate",
                  BlockData(id, Head(defs)), "cfg_block_free")
       IN r.freed \o register_all_freed(r.self, Tail(defs), id + 1)

GrammarContexts == {LL_CONTEXT_SOURCE}

IsToken(r) == r.fn = "lex" /\ r.tok \notin {LL_ERROR, LL_EOF}

\* the grammar asks for the next token; it keeps the first token the scanner gave it
GrammarLex ==
  /\ callstack = <<>>
  /\ callstack' = <<NewLexFrame(lexer)>>
  /\ hist' = [hist EXCEPT
                !.kept = IF @ = NULL /\ IsToken(ret) /\ ~ret.injected
                         THEN Some(ret.yylval) ELSE @,
                !.unput = NULL, !.due = hist.unput]
  /\ UNCHANGED <<sub, lexer, configuration, ret>>
  /\ UNCHANGED <<keyword_tables, call>>

\* cfg_lexer_unput_token of the token returned last, or of the token the grammar kept
GrammarUnput ==
  /\ callstack = <<>>
  /\ hist.nblocks < MaxBlocks
  /\ \E v \in {r.yylval : r \in {r \in {ret} : IsToken(r)}}
               \cup {hist.kept[i] : i \in 1..Len(hist.kept)} :
       /\ lexer' = cfg_lexer_unput_token(lexer, v)
       /\ hist' = [hist EXCEPT !.nblocks = @ + 1, !.unput = Some(v), !.due = NULL]
  /\ UNCHANGED <<sub, configuration, callstack, ret>>
  /\ UNCHANGED <<keyword_tables, call>>

\* a token block is created, filled and handed to cfg_lexer_inject_token_block
GrammarInject ==
  /\ callstack = <<>>
  /\ hist.nblocks < MaxBlocks
  /\ \E tokens \in InjectChoices :
       lexer' = cfg_lexer_inject_token_block(lexer, block_fill(cfg_token_block_new, tokens))
  /\ hist' = [hist EXCEPT !.nblocks = @ + 1]
  /\ UNCHANGED <<sub, configuration, callstack, ret>>
  /\ UNCHANGED <<keyword_tables, call>>

GrammarPushContext ==
  /\ callstack = <<>>
  /\ Len(lexer.context_stack) < MaxContext
  /\ \E type \in GrammarContexts :
       lexer' = cfg_lexer_push_context(lexer, type, NULL, "grammar")
  /\ UNCHANGED <<sub, configuration, callstack, ret, hist>>
  /\ UNCHANGED <<keyword_tables, call>>

GrammarPopContext ==
  /\ callstack = <<>>
  /\ lexer.context_stack # <<>>
  /\ lexer' = cfg_lexer_pop_context(lexer)
  /\ UNCHANGED <<sub, configuration, callstack, ret, hist>>
  /\ UNCHANGED <<keyword_tables, call>>

\* the grammar is done with the lexer, at any point between two calls: cfg_lexer_free.
\* The structure is gone afterwards: the frame left on callstack stands for that, no
\* call follows.
GrammarFree ==
  /\ callstack = <<>>
  /\ LET r == cfg_lexer_free(lexer)
     IN /\ lexer' = r.self
        /\ hist' = [hist EXCEPT !.destroyed = Some([before |-> lexer,
                                                    released |-> r.released]),
                                !.data_freed = @ \o r.released.data]
  /\ callstack' = <<[NoFrame EXCEPT !.fn = "free", !.pc = "destroyed"]>>
  /\ UNCHANGED <<sub, configuration, ret, keyword_tables, call>>

\* a block definition: cfg_block_new, then cfg_lexer_register_block_generator
GrammarRegister ==
  /\ callstack = <<>>
  /\ hist.nreg < MaxReg
  /\ \E context \in RegContexts, name \in RegNames :
       LET c == [context |-> context, name |-> name]
           data == BlockData(hist.nreg + 1, BlockDefs[1])
           r == cfg_lexer_register_block_generator(lexer, c.context, c.name,
                                                   "cfg_block_generate", data,
                                                   "cfg_block_free")
       IN /\ lexer' = r.self
          /\ hist' = [hist EXCEPT !.nreg = @ + 1,
                                  !.handed = Append(@, data),
                                  !.data_freed = @ \o r.freed,
                                  !.last_reg = Some([context |-> c.context, name |-> c.name,
                                                     data |-> data,
                                                     before |-> lexer.generators,
                                                     freed_before |-> hist.data_freed])]
  /\ UNCHANGED <<sub, configuration, callstack, ret>>
  /\ UNCHANGED <<keyword_tables, call>>

MainInputs ==
  {<<"x", Space, "include", Space, "f", ";", "z">>,
   <<"@", "include", Space, "'f'", "z">>,
   <<"b", "(", "p", "(", "v", ")", ")">>,
   <<"include", ";", "x">>,
   <<"r", "(", ")">>,
   <<"r", "include", ";">>,
   <<"include", Space, "g", ";">>,
   <<"@", "version", "3", "x">>,
   <<"e", "(", ")">>}

NoHist == [nblocks |-> 0, nreg |-> 0, kept |-> NULL, freed_blocks |-> <<>>,
           data_freed |-> <<>>, last_reg |-> NULL, nlookups |-> 0, kwlog |-> <<>>,
           handed |-> <<>>, destroyed |-> NULL, version_warnings |-> 0,
           unput |-> NULL,   \* the token of an unput that no call has followed yet
           due |-> NULL]     \* the token of the unput that the last call followed

Init ==
  /\ sub = SubstIdle
  /\ \E input \in MainInputs :
       lexer = register_all(cfg_lexer_new(<<"main">>, input), InitDefs, 1)
  /\ configuration = [version |-> 0, parsed_version |-> 0]
  /\ callstack = <<>>
  /\ ret = NoRet
  /\ hist = [NoHist EXCEPT
               !.handed = [i \in 1..Len(InitDefs) |-> BlockData(i, InitDefs[i])],
               !.data_freed = register_all_freed(cfg_lexer_new(<<"main">>, <<>>),
                                                 InitDefs, 1)]
  /\ keyword_tables = KeywordTables /\ call = NoCall

Next ==
  \/ GrammarLex
  \/ GrammarUnput
  \/ GrammarInject
  \/ GrammarPushContext
  \/ GrammarPopContext
  \/ GrammarFree
  \/ LexPass
  \/ LexAfterPragma
  \/ LexAfterIncludeName
  \/ LexAfterIncludeSemicolon
  \/ LexAfterBlockRef
  \/ ParseCallLex
  \/ ParseAccept
  \/ ParseFail

Spec == Init /\ [][Next]_vars

(***************************************************************************)
(* The registry on its own: block definitions registered one by one        *)
(***************************************************************************)
InitReg ==
  /\ sub = SubstIdle
  /\ lexer = cfg_lexer_new(<<"main">>, <<>>)
  /\ configuration = [version |-> 0, parsed_version |-> 0]
  /\ callstack = <<>>
  /\ ret = NoRet
  /\ hist = NoHist
  /\ keyword_tables = KeywordTables /\ call = NoCall

NextReg == GrammarRegister

SpecReg == InitReg /\ [][NextReg]_vars

(***************************************************************************)
(* The keyword resolver on its own: frames with keyword tables are pushed  *)
(* and popped, identifiers are resolved, the version is set                *)
(***************************************************************************)
InitKw ==
  /\ sub = SubstIdle
  /\ lexer = cfg_lexer_new(<<"main">>, <<>>)
  /\ configuration = [version |-> VERSION_VALUE_2_1, parsed_version |-> 0]
  /\ callstack = <<>>
  /\ ret = NoRet
  /\ hist = NoHist
  /\ keyword_tables = KeywordTables /\ call = NoCall

KwPush ==
  /\ Len(lexer.context_stack) < MaxKwFrames
  /\ \E keywords \in {NULL} \cup {Some(t) : t \in 1..Len(keyword_tables)} :
       lexer' = cfg_lexer_push_context(lexer, LL_CONTEXT_ROOT, keywords, "keywords")
  /\ ret' = [NoRet EXCEPT !.fn = "push_context"]
  /\ UNCHANGED <<sub, configuration, callstack, hist, keyword_tables, call>>

KwPop ==
  /\ lexer.context_stack # <<>>
  /\ lexer' = cfg_lexer_pop_context(lexer)
  /\ ret' = [NoRet EXCEPT !.fn = "pop_context"]
  /\ UNCHANGED <<sub, configuration, callstack, hist, keyword_tables, call>>

\* @version: the configuration moves on to 3.0
KwSetVersion ==
  /\ configuration.version < VERSION_VALUE_3_0
  /\ configuration' = cfg_set_version(configuration, VERSION_VALUE_3_0)
  /\ ret' = [NoRet EXCEPT !.fn = "set_version"]
  /\ UNCHANGED <<sub, lexer, callstack, hist, keyword_tables, call>>

\* the scanner has read an identifier: cfg_lexer_lookup_keyword
KwLookup ==
  /\ hist.nlookups < MaxLookups
  /\ \E token \in KeywordTokens :
       LET r == cfg_lexer_lookup_keyword(lexer, configuration, keyword_tables, token)
           warned == [k \in 1..Len(r.trace.warnings) |->
                       [id |-> r.trace.warnings[k].id, table |-> r.trace.warnings[k].table,
                        entry |-> r.trace.warnings[k].entry, tok |-> ""]]
           returned == IF r.hit = NULL THEN <<>>
                       ELSE <<[id |-> "return",
                               table |-> lexer.context_stack[r.hit[1][1]].keywords[1],
                               entry |-> r.hit[1][2], tok |-> r.tok]>>
       IN /\ keyword_tables' = r.trace.tables
          /\ ret' = [NoRet EXCEPT !.fn = "lookup_keyword", !.tok = r.tok,
                       !.yylval = [NoValue EXCEPT !.type = r.type, !.token = r.token,
                                                  !.cptr = r.cptr],
                       !.kw = [token |-> token, stack |-> lexer.context_stack,
                               version |-> configuration.version,
                               warnings |-> r.trace.warnings,
                               compared |-> r.trace.compared,
                               matched |-> r.trace.matched, hit |-> r.hit]]
          /\ hist' = [hist EXCEPT !.nlookups = @ + 1, !.kwlog = @ \o warned \o returned]
  /\ UNCHANGED <<sub, lexer, configuration, callstack, call>>

NextKw == KwPush \/ KwPop \/ KwSetVersion \/ KwLookup

SpecKw == InitKw /\ [][NextKw]_vars

(***************************************************************************)
(* The context names on their own: a type is turned into its name and the  *)
(* name back into a type; a given name is turned into a type and back      *)
(***************************************************************************)
ContextTypes == LL_CONTEXT_ROOT..LL_CONTEXT_SERVER_PROTO

ContextNames ==
  {"root", "destination", "source", "parser", "rewrite", "filter", "log", "block-def",
   "block-ref", "block-content", "block-arg", "pragma", "format", "template-func",
   "inner-dest", "inner-src", "client-proto", "server-proto"}

InitNames ==
  /\ sub = SubstIdle
  /\ lexer = cfg_lexer_new(<<"main">>, <<>>)
  /\ configuration = [version |-> 0, parsed_version |-> 0]
  /\ callstack = <<>>
  /\ ret = NoRet
  /\ hist = NoHist
  /\ keyword_tables = KeywordTables
  /\ \E t \in ContextTypes, n \in ContextNames \cup {"nosuch"} :
       call = [fn |-> "context_names", pc |-> "start", type |-> t, given |-> n,
               name |-> NULL, back |-> 0]

\* cfg_lexer_lookup_context_name_by_type(type)
NameByType ==
  /\ call.fn = "context_names" /\ call.pc = "start"
  /\ call' = [call EXCEPT !.pc = "named",
                          !.name = cfg_lexer_lookup_context_name_by_type(call.type)]
  /\ UNCHANGED <<sub, lexer, configuration, callstack, ret, hist, keyword_tables>>

\* cfg_lexer_lookup_context_type_by_name of the name just obtained
TypeByName ==
  /\ call.fn = "context_names" /\ call.pc = "named"
  /\ \E r \in IF call.name = NULL THEN type_by_null_name
               ELSE {cfg_lexer_lookup_context_type_by_name(call.name[1])} :
       call' = [call EXCEPT !.pc = "done", !.back = r]
  /\ UNCHANGED <<sub, lexer, configuration, callstack, ret, hist, keyword_tables>>

\* cfg_lexer_lookup_context_type_by_name of the given name, and the name of the result
TypeByGivenName ==
  /\ call.fn = "context_names" /\ call.pc = "start"
  /\ LET t == cfg_lexer_lookup_context_type_by_name(call.given)
     IN call' = [call EXCEPT !.pc = "given", !.back = t,
                             !.name = cfg_lexer_lookup_context_name_by_type(t)]
  /\ UNCHANGED <<sub, lexer, configuration, callstack, ret, hist, keyword_tables>>

NextNames == NameByType \/ TypeByName \/ TypeByGivenName

SpecNames == InitNames /\ [][NextNames]_vars

(***************************************************************************)
(* The user block expander on its own: cfg_block_generate is called once   *)
(* with the arguments of a block reference and a block whose content is a  *)
(* reference to __VARARGS__                                                *)
(***************************************************************************)
VarargsNames == {<<"P">>, <<"q">>, VARARGS}
VarargsValues == {<<"1">>, <<"2">>}

\* the ArgMap the grammar builds with cfg_args_set from the pairs of m
RECURSIVE cfg_args_of(_)
cfg_args_of(m) ==
  IF DOMAIN m = {} THEN cfg_args_new
  ELSE LET k == CHOOSE n \in DOMAIN m : TRUE
       IN cfg_args_set(cfg_args_of([n \in (DOMAIN m) \ {k} |-> m[n]]), k, m[k])

VarargsMaps(names) == UNION {[S -> VarargsValues] : S \in SUBSET names}

VarargsContent == <<BT, "__VARARGS__", BT>>

InitVarargs ==
  /\ sub = SubstIdle
  /\ lexer = cfg_lexer_new(<<"main">>, <<>>)
  /\ configuration = [version |-> 0, parsed_version |-> 0]
  /\ callstack = <<>>
  /\ ret = NoRet
  /\ hist = NoHist
  /\ keyword_tables = KeywordTables
  /\ \E a \in VarargsMaps(VarargsNames), d \in VarargsMaps({<<"P">>, <<"q">>}) :
       call = [fn |-> "block_generate", pc |-> "start", args |-> cfg_args_of(a),
               arg_defs |-> cfg_args_of(d), order |-> <<>>, filled |-> cfg_args_new,
               value |-> NULL, ok |-> FALSE]

\* cfg_block_generate(lexer, context, name, args, block): args is filled in place
BlockGenerate ==
  /\ call.fn = "block_generate" /\ call.pc = "start"
  /\ \E order \in Orders(DOMAIN call.args) :
       LET block == [content |-> VarargsContent, arg_defs |-> call.arg_defs]
           r == cfg_block_generate(lexer, LL_CONTEXT_ROOT, <<"b">>, call.args, block, <<>>,
                                   order)
       IN /\ lexer' = r.self
          /\ call' = [call EXCEPT !.pc = "done", !.order = order,
                                  !.filled = fill_varargs(block, call.args, order),
                                  !.value = r.value, !.ok = r.ok]
  /\ UNCHANGED <<sub, configuration, callstack, ret, hist, keyword_tables>>

NextVarargs == BlockGenerate

SpecVarargs == InitVarargs /\ [][NextVarargs]_vars

(***************************************************************************)
(* The context stack on its own: any sequence of pushes and pops.  call    *)
(* keeps the log of the calls made, with the type that was current when    *)
(* the call was made, and the lexer as it was before the last call.        *)
(***************************************************************************)
ContextCallTypes == {0, LL_CONTEXT_ROOT, LL_CONTEXT_SOURCE}
ContextCallDescs == {"outer", "inner"}

InitContexts ==
  /\ sub = SubstIdle
  /\ lexer = cfg_lexer_new(<<"main">>, <<>>)
  /\ configuration = [version |-> 0, parsed_version |-> 0]
  /\ callstack = <<>>
  /\ ret = NoRet
  /\ hist = NoHist
  /\ keyword_tables = KeywordTables
  /\ call = [fn |-> "contexts", log |-> <<>>, before |-> lexer]

\* cfg_lexer_push_context(self, type, keywords, desc)
ContextPush ==
  /\ call.fn = "contexts" /\ Len(call.log) < MaxContextCalls
  /\ \E type \in ContextCallTypes, desc \in ContextCallDescs :
       /\ lexer' = cfg_lexer_push_context(lexer, type, NULL, desc)
       /\ call' = [call EXCEPT !.before = lexer,
                     !.log = Append(@, [op |-> "push", type |-> type, desc |-> desc,
                                        current |-> cfg_lexer_get_context_type(lexer)])]
  /\ UNCHANGED <<sub, configuration, callstack, ret, hist, keyword_tables>>

\* cfg_lexer_pop_context(self), on an empty stack as well
ContextPop ==
  /\ call.fn = "contexts" /\ Len(call.log) < MaxContextCalls
  /\ lexer' = cfg_lexer_pop_context(lexer)
  /\ call' = [call EXCEPT !.before = lexer,
                !.log = Append(@, [op |-> "pop", type |-> 0, desc |-> "",
                                   current |-> cfg_lexer_get_context_type(lexer)])]
  /\ UNCHANGED <<sub, configuration, callstack, ret, hist, keyword_tables>>

NextContexts == ContextPush \/ ContextPop

SpecContexts == InitContexts /\ [][NextContexts]_vars

(***************************************************************************)
(* A token block on its own: tokens are appended to it and read from it in *)
(* any order.  call keeps the block, the tokens handed out so far, the     *)
(* block as it was before the last call, and whether an assertion failed   *)
(* (the process is gone then, no call follows).                            *)
(***************************************************************************)
InitBlock ==
  /\ sub = SubstIdle
  /\ lexer = cfg_lexer_new(<<"main">>, <<>>)
  /\ configuration = [version |-> 0, parsed_version |-> 0]
  /\ callstack = <<>>
  /\ ret = NoRet
  /\ hist = NoHist
  /\ keyword_tables = KeywordTables
  /\ call = [fn |-> "token_block", block |-> cfg_token_block_new, handed |-> <<>>,
             calls |-> 0, last |-> "none", before |-> cfg_token_block_new,
             aborted |-> FALSE]

\* cfg_token_block_add_token(self, token)
BlockAddToken ==
  /\ call.fn = "token_block" /\ ~call.aborted /\ call.calls < MaxBlockCalls
  /\ \E token \in {TokenA, TokenB, TokenC} :
       call' = [call EXCEPT !.block = cfg_token_block_add_token(@, token),
                            !.aborted = (call.block.pos # 0),
                            !.calls = @ + 1, !.last = "add_token",
                            !.before = call.block]
  /\ UNCHANGED <<sub, lexer, configuration, callstack, ret, hist, keyword_tables>>

\* cfg_token_block_get_token(self)
BlockGetToken ==
  /\ call.fn = "token_block" /\ ~call.aborted /\ call.calls < MaxBlockCalls
  /\ LET r == cfg_token_block_get_token(call.block)
     IN call' = [call EXCEPT !.block = r.block,
                             !.handed = IF r.result = NULL THEN @ ELSE Append(@, r.result[1]),
                             !.calls = @ + 1, !.last = "get_token",
                             !.before = call.block]
  /\ UNCHANGED <<sub, lexer, configuration, callstack, ret, hist, keyword_tables>>

NextBlock == BlockAddToken \/ BlockGetToken

SpecBlock == InitBlock /\ [][NextBlock]_vars

(***************************************************************************)
(* One user defined block referenced several times with the same           *)
(* arguments.  call keeps the block as it was defined (defined), the block *)
(* as the expansions have left it (block) and what each reference pushed.  *)
(***************************************************************************)
ExpandTexts == SeqsUpTo({BT, "p", "a"}, MaxLen)

InitExpand ==
  /\ sub = SubstIdle
  /\ lexer = cfg_lexer_new(<<"main">>, <<>>)
  /\ configuration = [version |-> 0, parsed_version |-> 0]
  /\ callstack = <<>>
  /\ ret = NoRet
  /\ hist = NoHist
  /\ keyword_tables = KeywordTables
  /\ \E content \in ExpandTexts, d \in VarargsMaps({<<"p">>}), a \in VarargsMaps({<<"p">>}) :
       LET block == [content |-> content, arg_defs |-> cfg_args_of(d)]
       IN call = [fn |-> "expand", defined |-> block, block |-> block,
                  args |-> cfg_args_of(a), pushed |-> <<>>]

\* a reference to the block: cfg_block_generate with a fresh copy of the arguments;
\* the substitutor works in the buffer block->content
ExpandReference ==
  /\ call.fn = "expand" /\ Len(call.pushed) < MaxReferences
  /\ lexer.include_depth = 0
  /\ \E order \in Orders(DOMAIN call.args) :
       LET seen == [call.block EXCEPT !.content = c_str(@)]
           r == cfg_block_generate(lexer, LL_CONTEXT_SOURCE, <<"b">>, call.args, seen,
                                   LexEnv, order)
       IN /\ lexer' = r.self
          /\ call' = [call EXCEPT
                        !.block.content = subst_buffer(@, 1, FALSE, 1),
                        !.pushed = Append(@, [ok |-> r.ok, value |-> r.value])]
  /\ UNCHANGED <<sub, configuration, callstack, ret, hist, keyword_tables>>

\* the scanner reads the pushed buffer to its end, the frame is popped
ExpandBufferRead ==
  /\ call.fn = "expand" /\ lexer.include_depth > 0
  /\ lexer' = include_pop(lexer)
  /\ UNCHANGED <<sub, configuration, callstack, ret, hist, keyword_tables, call>>

NextExpand == ExpandReference \/ ExpandBufferRead

SpecExpand == InitExpand /\ [][NextExpand]_vars

(***************************************************************************)
(* The substitutor called on its own                                       *)
(***************************************************************************)
SubstInputs ==
  \/ \E g \in GlobalsChoices, d \in DefsChoices, a \in ArgsChoices, e \in EnvChoices,
        t \in SubstTexts :
       sub = [pc |-> "call", globals |-> g, defs |-> d, args |-> a, env |-> e,
              cptr |-> t, result |-> NULL]
  \/ sub = [pc |-> "call", globals |-> S2Globals, defs |-> S2Defs, args |-> S2Args,
            env |-> <<>>, cptr |-> S2Text, result |-> NULL]

InitSubst ==
  /\ SubstInputs
  /\ lexer = cfg_lexer_new(<<"main">>, <<>>)
  /\ configuration = [version |-> 0, parsed_version |-> 0]
  /\ callstack = <<>>
  /\ ret = NoRet
  /\ hist = NoHist
  /\ keyword_tables = KeywordTables /\ call = NoCall

\* one call of the substitutor on the drawn arguments
SubstCall ==
  /\ sub.pc = "call"
  /\ sub' = [sub EXCEPT !.pc = "done",
               !.result = cfg_lexer_subst_args(sub.globals, sub.defs, sub.args, sub.env,
                                               sub.cptr)]
  /\ UNCHANGED <<lexer, configuration, callstack, ret, hist>>
  /\ UNCHANGED <<keyword_tables, call>>

NextSubst == SubstCall

SpecSubst == InitSubst /\ [][NextSubst]_vars

(***************************************************************************)
(* Properties of the substitutor                                           *)
(***************************************************************************)
\* the pieces of a text between its back-ticks, in order
RECURSIVE SplitAtTicks(_)
SplitAtTicks(s) ==
  LET ticks == {i \in 1..Len(s) : s[i] = BT}
  IN IF ticks = {} THEN <<s>>
     ELSE LET i == CHOOSE k \in ticks : \A m \in ticks : k <= m
          IN <<SubSeq(s, 1, i - 1)>> \o SplitAtTicks(SubSeq(s, i + 1, Len(s)))

Ticks(s) == Cardinality({i \in 1..Len(s) : s[i] = BT})

Defines(scope, name) ==
  scope # NULL /\ (name \in DOMAIN scope[1] \/ normalize_key(name) \in DOMAIN scope[1])

ValueIn(scope, name) ==
  IF name \in DOMAIN scope[1] THEN scope[1][name] ELSE scope[1][normalize_key(name)]

\* the value of the first scope, in the order args, defs, globals, environment
FirstScopeValue(name) ==
  LET scopes == <<sub.args, sub.defs, sub.globals>>
      hits == {i \in 1..3 : Defines(scopes[i], name)}
  IN IF hits # {}
     THEN ValueIn(scopes[CHOOSE i \in hits : \A j \in hits : i <= j], name)
     ELSE IF name \in DOMAIN sub.env THEN sub.env[name] ELSE <<>>

RECURSIVE ExpectedText(_, _)
ExpectedText(pieces, k) ==
  IF k > Len(pieces) THEN <<>>
  ELSE (IF k % 2 = 1 THEN pieces[k]
        ELSE IF pieces[k] = <<>> THEN <<BT>> ELSE FirstScopeValue(pieces[k]))
       \o ExpectedText(pieces, k + 1)

\* C9: every closed reference is replaced by the value of the first scope that
\* defines its name, in the order args, defs, globals, environment; the value is
\* appended verbatim (not rescanned); scenario S2 gives "dest(h1:6514)", length 13.
C9_FirstScopeWins ==
  (sub.pc = "done" /\ sub.result # NULL) =>
     /\ sub.result[1].str = ExpectedText(SplitAtTicks(sub.cptr), 1)
     /\ sub.result[1].length = Len(sub.result[1].str)
     /\ (sub.cptr = S2Text /\ sub.args = S2Args /\ sub.defs = S2Defs
           /\ sub.globals = S2Globals)
          => (sub.result[1].str = S2Result /\ sub.result[1].length = 13)

\* scenario S2: port is defined in args and in defs, host_name in globals only
C9_Witness ==
  /\ sub.pc = "done"
  /\ sub.cptr = S2Text
  /\ Defines(sub.args, S2Port) /\ Defines(sub.defs, S2Port)
  /\ Defines(sub.globals, S2HostName)
  /\ sub.result = Some([str |-> S2Result, length |-> 13])

\* C10: the substitutor fails exactly when the text holds an odd number of
\* back-ticks; a name no scope defines contributes the empty text, and an empty
\* reference contributes one back-tick.
C10_FailsIffOpenReference ==
  sub.pc = "done" =>
     /\ (sub.result = NULL) <=> (Ticks(sub.cptr) % 2 = 1)
     /\ \A i, j \in 1..Len(sub.cptr) :
          (i < j /\ sub.cptr[i] = BT /\ sub.cptr[j] = BT /\ Ticks(sub.cptr) = 2) =>
             LET pre == SubSeq(sub.cptr, 1, i - 1)
                 name == SubSeq(sub.cptr, i + 1, j - 1)
                 post == SubSeq(sub.cptr, j + 1, Len(sub.cptr))
             IN /\ name = <<>> => sub.result = Some([str |-> pre \o <<BT>> \o post,
                                                    length |-> Len(pre) + 1 + Len(post)])
                /\ (name # <<>> /\ ~Defines(sub.args, name) /\ ~Defines(sub.defs, name)
                      /\ ~Defines(sub.globals, name) /\ name \notin DOMAIN sub.env)
                     => sub.result = Some([str |-> pre \o post,
                                           length |-> Len(pre) + Len(post)])

\* a closed reference to an unknown name followed by a reference left open
C10_Witness ==
  /\ sub.pc = "done"
  /\ sub.cptr = <<BT, "a", BT, BT>>
  /\ sub.env = <<>>
  /\ sub.result = NULL


(***************************************************************************)
(* Properties of the lexer facade                                          *)
(***************************************************************************)
LexReturned == ret.fn = "lex"

\* the call returned through the exit label with the token of its last pass
PlainReturn == LexReturned /\ ret.h.branch = "plain"

LexFrames == {callstack[i] : i \in {j \in 1..Len(callstack) : callstack[j].fn = "lex"}}

\* C1: the suppression counter is never negative, and every return of next(),
\* the LL_ERROR returns included, leaves it at the value it had on entry
C1_SuppressionRestored ==
  /\ lexer.preprocess_suppress_tokens >= 0
  /\ LexReturned => ret.exit_suppress = ret.h.entry_suppress

\* an include directive without a file name, met while the arguments of a block
\* reference are read: the error return leaves the counter at 1 as it found it
C1_Witness ==
  /\ LexReturned /\ ret.tok = LL_ERROR
  /\ ret.h.met = KW_INCLUDE /\ ret.h.branch = "include"
  /\ ret.h.entry_suppress = 1 /\ ret.exit_suppress = 1

\* what a returned token adds to the echo buffer
EchoOf(r) ==
  IF r.injected THEN <<>>
  ELSE r.pretext \o (IF r.exit_suppress = 0 THEN r.text ELSE <<>>)

\* C2: a returned token's text is echoed exactly when it was not injected and the
\* suppression counter is zero, the text skipped before a scanned token is echoed
\* whatever the counter, an injected token echoes nothing, and the echo buffer
\* is only ever extended
C2_EchoRules ==
  /\ [](PlainReturn => ret.echo = ret.h.pass_echo \o EchoOf(ret))
  /\ [][IsPrefix(lexer.preprocess_output, lexer'.preprocess_output)]_vars

\* the file name of an include directive: scanned under suppression, its leading
\* blank is echoed and its own text is not
C2_Witness ==
  /\ PlainReturn /\ ~ret.injected /\ ret.exit_suppress = 1
  /\ ret.pretext = <<Space>> /\ ret.text = <<"f">>
  /\ ret.echo = ret.h.pass_echo \o <<Space>>
  /\ ret.echo # ret.h.pass_echo \o <<Space, "f">>


\* a block of the three synthesized tokens a, b, c
IsABC(b) == b.tokens = <<TokenA, TokenB, TokenC>>

\* C3: the tokens of an injected block [a, b, c] are returned in that order, each
\* with the location of the include frame that is on top at that call; only the
\* block at the head is drained, an exhausted block is removed and freed, and a
\* call that delivers a scanned token has left no block behind
C3_BlockDrainedInOrder ==
  /\ \A i \in 1..Len(lexer.token_blocks) :
       LET b == lexer.token_blocks[i]
       IN /\ i > 1 => b.pos = 0
          /\ IsABC(b) => b.out = SubSeq(b.tokens, 1, b.pos)
  /\ \A i \in 1..Len(hist.freed_blocks) :
       LET b == hist.freed_blocks[i]
       IN /\ b.pos = Len(b.tokens)
          /\ IsABC(b) => b.out = b.tokens
  /\ (PlainReturn /\ ret.injected) =>
        ret.yylloc = ret.top_lloc /\ ret.tok = value_tok(ret.yylval)
  /\ (PlainReturn /\ ~ret.injected) => ret.blocks_left = 0

\* the block has been handed out in order inside an included file and freed, and
\* the call that freed it went on to the scanner
C3_Witness ==
  /\ PlainReturn /\ ~ret.injected /\ ret.tok = LL_IDENTIFIER /\ ret.exit_depth = 1
  /\ hist.freed_blocks # <<>>
  /\ IsABC(hist.freed_blocks[1])
  /\ hist.freed_blocks[1].out = <<TokenA, TokenB, TokenC>>
  /\ lexer.token_blocks = <<>>

\* a token the scanner produced comes back out of a token block
Redelivered == PlainReturn /\ ret.injected /\ ret.yylval.scan_lloc # NoLoc

\* C4 as stated: a token that is pushed back is returned with the location it was
\* scanned at, whatever was lexed, pushed or popped in between
C4_OriginalLocationKept == Redelivered => ret.yylloc = ret.yylval.scan_lloc

\* C4: a token that is pushed back is returned with the location the include frame
\* on top has when it is handed out again, which is the location it was scanned
\* at only as long as nothing else was scanned in between
C4_LocationAtRedelivery ==
  Redelivered =>
    /\ ret.yylloc = ret.exit_stack[ret.exit_depth + 1].lloc
    /\ ret.tok = value_tok(ret.yylval)

\* the token the grammar kept is handed out again after more input was scanned
C4_Witness ==
  /\ Redelivered
  /\ ret.yylloc # ret.yylval.scan_lloc
  /\ ret.yylloc = ret.exit_stack[ret.exit_depth + 1].lloc

\* C5: a block reference whose arguments do not parse, or whose generator fails,
\* makes next() return LL_ERROR; a reference that generates makes the same call
\* lex again, so that its next scanned token is the first token of the generated
\* text; the generator is called at most once, and never after a failed parse
C5_BlockReference ==
  /\ \A f \in LexFrames :
       /\ f.h.ref \notin {"parse_failed", "generator_failed"}
       /\ f.h.ref = "generated" => f.pc = "relex" /\ f.h.gen_calls = 1
       /\ f.h.ref = "parsing" => f.pc = "block_ref" /\ f.h.gen_calls = 0
       /\ f.h.gen_calls <= 1
  /\ LexReturned =>
       /\ ret.h.ref \in {"parse_failed", "generator_failed"} => ret.tok = LL_ERROR
       /\ ret.h.ref \notin {"parsing", "generated"}
       /\ ret.h.ref = "parse_failed" => ret.h.gen_calls = 0
       /\ ret.h.ref = "generator_failed" => ret.h.gen_calls = 1
       /\ ret.h.gen_calls <= 1
  /\ (PlainReturn /\ ~ret.injected /\ ret.h.after_gen # NULL
        /\ ret.h.after_gen # Some(<<>>)) =>
       /\ ret.text = <<Head(ret.h.after_gen[1])>>
       /\ ret.yylloc.first_column = 1
       /\ ret.exit_depth = ret.h.pass_depth

\* the reference b(p(v)) in a source context: the token returned is the v of the
\* generated text v;
C5_Witness ==
  /\ PlainReturn /\ ~ret.injected
  /\ ret.h.after_gen = Some(<<"v", ";">>)
  /\ ret.tok = LL_IDENTIFIER /\ ret.yylval.cptr = <<"v">>

\* the include keyword met while the pragma context is on top
IncludeInPragma ==
  LexReturned /\ ret.h.met = KW_INCLUDE /\ ret.h.met_ctx = LL_CONTEXT_PRAGMA

\* C6 as stated: the include keyword in the pragma context makes next() return
\* LL_ERROR, and no file frame is pushed
C6_IncludeInPragmaIsError ==
  IncludeInPragma => ret.tok = LL_ERROR /\ ret.exit_depth = ret.h.pass_depth

\* C6: the include keyword in the pragma context is not intercepted: next() hands
\* it to the pragma grammar as the KW_INCLUDE token, and pushes no file frame
C6_IncludeInPragmaIsToken ==
  IncludeInPragma =>
    /\ ret.tok = KW_INCLUDE /\ ret.h.branch = "plain"
    /\ ret.exit_depth = ret.h.pass_depth

\* @include: the keyword has been returned to the pragma grammar
C6_Witness ==
  /\ IncludeInPragma /\ ret.tok = KW_INCLUDE
  /\ callstack # <<>> /\ Top.fn = "parse" /\ Top.parser = "pragma"

\* C7: the include depth stays below its bound; a push at the bound fails, leaves
\* the stack as it was, and makes the enclosing next() return LL_ERROR
C7_IncludeDepthBounded ==
  /\ lexer.include_depth <= MAX_INCLUDE_DEPTH - 1
  /\ Len(lexer.include_stack) = lexer.include_depth + 1
  /\ \A f \in LexFrames :
       f.h.overflow # NULL =>
         /\ f.pc = "pragma" /\ ret.fn = "parse" /\ ~ret.success
         /\ lexer.include_stack = f.h.overflow[1]
  /\ (LexReturned /\ ret.h.overflow # NULL) =>
       /\ ret.tok = LL_ERROR
       /\ ret.exit_stack = ret.h.overflow[1]
       /\ ret.exit_depth = MAX_INCLUDE_DEPTH - 1

\* a push at the bound has been refused
C7_Witness ==
  /\ LexReturned /\ ret.h.overflow # NULL /\ ret.tok = LL_ERROR
  /\ lexer.include_depth = MAX_INCLUDE_DEPTH - 1
  /\ ret.exit_stack = ret.h.overflow[1]


(***************************************************************************)
(* Properties of the block generator registry                              *)
(***************************************************************************)
\* the entry a registration appends
EntryOf(r) ==
  [context |-> r.context, name |-> r.name, generator |-> "cfg_block_generate",
   generator_data |-> r.data, generator_data_free |-> "cfg_block_free"]

\* what a registration does when it is refused (TRUE) or accepted (FALSE)
RegistrationOutcome(r, refused) ==
  IF refused
  THEN /\ lexer.generators = r.before
       /\ hist.data_freed = r.freed_before \o <<r.data>>
       /\ Cardinality({i \in 1..Len(hist.data_freed) : hist.data_freed[i] = r.data}) = 1
  ELSE /\ lexer.generators = Append(r.before, EntryOf(r))
       /\ hist.data_freed = r.freed_before

\* C8 as stated: a registration is refused, the registry unchanged and the data
\* released once, when an entry with the same (context, name) exists; a
\* registration with a new (context, name) adds one entry and releases nothing
C8_RefusedIffSamePair ==
  hist.last_reg # NULL =>
    LET r == hist.last_reg[1]
    IN RegistrationOutcome(r, \E i \in 1..Len(r.before) :
                                 r.before[i].context = r.context /\ r.before[i].name = r.name)

\* C8: a registration is refused, the registry unchanged and the data released
\* once, when an entry with the same name exists whose context is the same or is
\* "any" (0); every other registration adds one entry and releases nothing
C8_RefusedIffFound ==
  hist.last_reg # NULL =>
    LET r == hist.last_reg[1]
    IN RegistrationOutcome(r, \E i \in 1..Len(r.before) :
                                 /\ r.before[i].name = r.name
                                 /\ r.before[i].context \in {0, r.context})

\* (source, b) is registered after (any, b): it is refused and its data released
C8_Witness ==
  /\ hist.last_reg # NULL
  /\ hist.last_reg[1].context = LL_CONTEXT_SOURCE /\ hist.last_reg[1].name = <<"b">>
  /\ Len(hist.last_reg[1].before) = 1
  /\ hist.last_reg[1].before[1].context = 0 /\ hist.last_reg[1].before[1].name = <<"b">>
  /\ lexer.generators = hist.last_reg[1].before
  /\ hist.data_freed = <<hist.last_reg[1].data>>


(***************************************************************************)
(* More properties of the substitutor                                      *)
(***************************************************************************)
NoBackTick(s) == \A i \in 1..Len(s) : s[i] # BT

\* C11: a text without a back-tick is returned as it is, with its own length,
\* whatever args, defs, globals and the environment hold
C11_NoBackTickIdentity ==
  (sub.pc = "done" /\ NoBackTick(sub.cptr)) =>
     sub.result = Some([str |-> sub.cptr, length |-> Len(sub.cptr)])

\* the text appa, every scope defining p: nothing is substituted
C11_Witness ==
  /\ sub.pc = "done" /\ sub.cptr = <<"a", "p", "p", "a">>
  /\ sub.args = Some(cfg_args_set(cfg_args_new, KeyP, <<"1">>))
  /\ sub.defs # NULL /\ sub.globals # NULL /\ sub.env # <<>>
  /\ sub.result = Some([str |-> <<"a", "p", "p", "a">>, length |-> 4])


(***************************************************************************)
(* Properties of the keyword resolver                                      *)
(***************************************************************************)
Resolved == ret.fn = "lookup_keyword"

\* the table frame f of the stack points to, as it is now
TableOf(f) == keyword_tables[lexer.context_stack[f].keywords[1]]

HasTable(f) == lexer.context_stack[f].keywords # NULL

\* the frames whose keyword table starts with the @STOP@ sentinel
StopFrames ==
  {f \in 1..Len(lexer.context_stack) :
     HasTable(f) /\ TableOf(f) # <<>> /\ TableOf(f)[1].kw_name = CFG_KEYWORD_STOP}

InSeq(x, seq) == \E k \in 1..Len(seq) : seq[k] = x

\* C12: when the walk reaches a frame whose table starts with @STOP@, the result
\* is IDENTIFIER(lexeme): no entry of that table and none of a lower frame is
\* compared, and no entry of theirs is the one that is returned
C12_StopSentinel ==
  (Resolved /\ StopFrames # {}) =>
     LET f0 == CHOOSE f \in StopFrames : \A g \in StopFrames : f <= g
     IN /\ \A k \in 1..Len(ret.kw.compared) : ret.kw.compared[k][1] < f0
        /\ ret.kw.hit # NULL => ret.kw.hit[1][1] < f0
        /\ ret.kw.hit = NULL =>
             ret.tok = LL_IDENTIFIER /\ ret.yylval.cptr = ret.kw.token

\* scenario S3 with a lower frame that spells the lexeme: the top table starts with
\* @STOP@ and holds s, the frame below holds s as well, s resolves to IDENTIFIER(s)
C12_Witness ==
  /\ Resolved /\ ret.kw.token = <<"s">>
  /\ Len(lexer.context_stack) = 2 /\ StopFrames = {1}
  /\ HasTable(2) /\ \E i \in 1..Len(TableOf(2)) : TableOf(2)[i].kw_name = <<"s">>
  /\ \E i \in 2..Len(TableOf(1)) : TableOf(1)[i].kw_name = <<"s">>
  /\ ret.tok = LL_IDENTIFIER /\ ret.yylval.cptr = <<"s">> /\ ret.kw.compared = <<>>


\* the spelling of the entry <<f, i>>
NameOf(e) == TableOf(e[1])[e[2]].kw_name

\* equal characters, or '-' in the identifier for '_' in the entry
SpelledAlikeOrHyphen(token, name) ==
  /\ Len(token) = Len(name)
  /\ \A j \in 1..Len(token) : token[j] = name[j] \/ (token[j] = "-" /\ name[j] = "_")

\* '-' and '_' in the identifier stand for '_' in the entry and for nothing else
SpelledAlike(token, name) ==
  /\ Len(token) = Len(name)
  /\ \A j \in 1..Len(token) :
       IF token[j] \in {"-", "_"} THEN name[j] = "_" ELSE token[j] = name[j]

\* C13 as stated: an identifier matches an entry exactly when the lengths agree
\* and at every position the characters are equal or the identifier has '-'
\* where the entry has '_'
C13_MatchIffEqualOrHyphen ==
  Resolved =>
    \A k \in 1..Len(ret.kw.compared) :
       InSeq(ret.kw.compared[k], ret.kw.matched)
         <=> SpelledAlikeOrHyphen(ret.kw.token, NameOf(ret.kw.compared[k]))

\* C13: an identifier matches an entry exactly when the lengths agree and at
\* every position the identifier has '-' or '_' where the entry has '_', or has
\* another character that the entry has too; '-' in an entry is matched by nothing
C13_MatchRule ==
  Resolved =>
    \A k \in 1..Len(ret.kw.compared) :
       InSeq(ret.kw.compared[k], ret.kw.matched)
         <=> SpelledAlike(ret.kw.token, NameOf(ret.kw.compared[k]))

\* scenario S4: f-l is resolved to the token of the entry f_l
C13_Witness ==
  /\ Resolved /\ ret.kw.token = <<"f", "-", "l">>
  /\ ret.kw.hit = Some(<<1, 1>>) /\ NameOf(<<1, 1>>) = <<"f", "_", "l">>
  /\ ret.tok = "KW_FLUSH" /\ ret.yylval.type = LL_TOKEN


\* the matches of the last resolution that the version gate suppressed
Gated ==
  {k \in 1..Len(ret.kw.compared) :
     /\ InSeq(ret.kw.compared[k], ret.kw.matched)
     /\ ret.kw.hit # Some(ret.kw.compared[k])}

\* what every suppressed match has in common: the reserved word warning is
\* emitted, the entry's token is not returned, and without another match the
\* result is IDENTIFIER(lexeme)
GateSuppresses(k) ==
  LET e == ret.kw.compared[k]
  IN /\ TableOf(e[1])[e[2]].kw_req_version > ret.kw.version
     /\ \E w \in 1..Len(ret.kw.warnings) :
          /\ ret.kw.warnings[w].id = MSG_RESERVED_WORD_USED
          /\ ret.kw.warnings[w].table = lexer.context_stack[e[1]].keywords[1]
          /\ ret.kw.warnings[w].entry = e[2]
     /\ ret.kw.hit = NULL => ret.tok = LL_IDENTIFIER /\ ret.yylval.cptr = ret.kw.token

\* C14 as stated: after a match suppressed by the version gate the resolution
\* goes on with the next entry of the same keyword table
C14_GateContinuesInTable ==
  Resolved =>
    \A k \in Gated :
       LET e == ret.kw.compared[k]
       IN /\ GateSuppresses(k)
          /\ e[2] < Len(TableOf(e[1])) => InSeq(<<e[1], e[2] + 1>>, ret.kw.compared)

\* C14: after a match suppressed by the version gate the rest of that keyword
\* table is skipped and the resolution goes on with the lower frames only
C14_GateLeavesTable ==
  Resolved =>
    \A k \in Gated :
       LET e == ret.kw.compared[k]
       IN /\ GateSuppresses(k)
          /\ \A m \in 1..Len(ret.kw.compared) :
               m > k => ret.kw.compared[m][1] > e[1]
          /\ \A m \in 1..Len(ret.kw.compared) :
               ret.kw.compared[m][1] = e[1] => ret.kw.compared[m][2] <= e[2]

\* f_l at version 2.1: the entry of 3.0 is suppressed, the later f_l entry of the
\* same table is not looked at, and the frame below yields its token
C14_Witness ==
  /\ Resolved /\ ret.kw.token = <<"f", "_", "l">> /\ ret.kw.version = VERSION_VALUE_2_1
  /\ ret.kw.compared = <<<<1, 1>>, <<2, 1>>>>
  /\ NameOf(<<1, 2>>) = <<"f", "_", "l">>
  /\ ret.kw.hit = Some(<<2, 1>>) /\ ret.tok = "KW_FLUSH_LOW"


\* the positions of the log that tell of entry i of table t with the given id
LogOf(t, i, id) ==
  {k \in 1..Len(hist.kwlog) :
     hist.kwlog[k].table = t /\ hist.kwlog[k].entry = i /\ hist.kwlog[k].id = id}

\* C15: over a run of resolutions an entry that starts obsolete is warned about on
\* its first version-allowed match and never again; that match sets its status to
\* normal; every allowed match returns the entry's token; a match suppressed by
\* the version gate neither warns about obsolescence nor changes the status
C15_ObsoleteWarnedOnce ==
  \A t \in 1..Len(KeywordTables) : \A i \in 1..Len(KeywordTables[t]) :
     LET returns == LogOf(t, i, "return")
         warnings == LogOf(t, i, MSG_OBSOLATED_KEYWORD_USED)
         first == CHOOSE k \in returns : \A m \in returns : k <= m
     IN /\ \A k \in returns : hist.kwlog[k].tok = KeywordTables[t][i].kw_token
        /\ IF KeywordTables[t][i].kw_status = KWS_OBSOLETE
           THEN /\ keyword_tables[t][i].kw_status =
                     IF returns = {} THEN KWS_OBSOLETE ELSE KWS_NORMAL
                /\ warnings = IF returns = {} THEN {} ELSE {first - 1}
           ELSE /\ keyword_tables[t][i].kw_status = KWS_NORMAL
                /\ warnings = {}

\* f_l twice: suppressed at 2.1, which leaves the entry obsolete, then matched at
\* 3.0 with the warning
C15_Witness ==
  /\ Len(hist.kwlog) = 3
  /\ [k \in 1..3 |-> hist.kwlog[k].id] =
       <<MSG_RESERVED_WORD_USED, MSG_OBSOLATED_KEYWORD_USED, "return">>
  /\ \A k \in 1..3 : hist.kwlog[k].table = 1 /\ hist.kwlog[k].entry = 1
  /\ KeywordTables[1][1].kw_status = KWS_OBSOLETE
  /\ keyword_tables[1][1].kw_status = KWS_NORMAL


(***************************************************************************)
(* Properties of the context names                                         *)
(***************************************************************************)
\* C16: every context type of the enumeration has a name, and the name leads back
\* to the type
C16_NameRoundTrip ==
  (call.fn = "context_names" /\ call.type \in ContextTypes) =>
     /\ call.pc \in {"named", "done"} => call.name # NULL
     /\ call.pc = "done" => call.back = call.type


(***************************************************************************)
(* Properties of the user block expander                                   *)
(***************************************************************************)
Generated == call.fn = "block_generate" /\ call.pc = "done"

UnknownKeys == {k \in DOMAIN call.args : k \notin DOMAIN call.arg_defs}

RECURSIVE VarargsText(_, _)
VarargsText(args, o) ==
  IF o = <<>> THEN <<>>
  ELSE Head(o) \o <<"(">> \o args[Head(o)] \o <<")", " ">> \o VarargsText(args, Tail(o))

\* C17: the expander stores under __VARARGS__ the pieces "key(value) " of exactly the
\* keys the arguments had at the call and arg_defs does not define, each once; what
\* was stored there before is replaced, every other argument is as it was, and the
\* substitution of the content sees the new value
C17_VarargsOfUnknownKeys ==
  Generated =>
     /\ DOMAIN call.filled = (DOMAIN call.args) \cup {VARARGS}
     /\ \A k \in (DOMAIN call.args) \ {VARARGS} : call.filled[k] = call.args[k]
     /\ \E o \in Orders(UnknownKeys) : call.filled[VARARGS] = VarargsText(call.args, o)
     /\ call.value = Some(call.filled[VARARGS])

C17_Witness ==
  /\ Generated
  /\ DOMAIN call.args = {<<"p">>, <<"q">>, VARARGS}
  /\ DOMAIN call.arg_defs = {<<"p">>}
  /\ call.args[VARARGS] = <<"1">>
  /\ call.filled[VARARGS] =
       <<"q", "(", "2", ")", " ", "__VARARGS__", "(", "1", ")", " ">>


(***************************************************************************)
(* Properties of the context stack                                         *)
(***************************************************************************)
\* the positions in the log of the pushes not yet popped, the most recent first
RECURSIVE UnpoppedPushes(_)
UnpoppedPushes(log) ==
  IF log = <<>> THEN <<>>
  ELSE LET earlier == UnpoppedPushes(SubSeq(log, 1, Len(log) - 1))
       IN IF log[Len(log)].op = "push" THEN <<Len(log)>> \o earlier
          ELSE IF earlier = <<>> THEN <<>> ELSE Tail(earlier)

\* the type a push takes: the requested one, or the one current at the push for 0
TypeTaken(e) == IF e.type # 0 THEN e.type ELSE e.current

\* C18: the current type and description are those of the most recent push not yet
\* popped, a push of type 0 taking the type current at that push; they are 0 and
\* "configuration" when no push is left, and a pop on the empty stack changes nothing
C18_CurrentIsLastUnpopped ==
  call.fn = "contexts" =>
    LET left == UnpoppedPushes(call.log)
    IN /\ left = <<>> =>
            /\ cfg_lexer_get_context_type(lexer) = 0
            /\ cfg_lexer_get_context_description(lexer) = "configuration"
       /\ left # <<>> =>
            /\ cfg_lexer_get_context_type(lexer) = TypeTaken(call.log[Head(left)])
            /\ cfg_lexer_get_context_description(lexer) = call.log[Head(left)].desc
       /\ (/\ call.log # <<>>
           /\ call.log[Len(call.log)].op = "pop"
           /\ UnpoppedPushes(SubSeq(call.log, 1, Len(call.log) - 1)) = <<>>)
            => lexer = call.before

\* a push of a type, two pushes of type 0 on top of it, and the upper one popped
C18_Witness ==
  /\ call.fn = "contexts" /\ Len(call.log) = 4
  /\ call.log[1].op = "push" /\ call.log[1].type = LL_CONTEXT_SOURCE
  /\ call.log[2].op = "push" /\ call.log[2].type = 0 /\ call.log[2].desc = "inner"
  /\ call.log[3].op = "push" /\ call.log[3].type = 0 /\ call.log[3].desc = "outer"
  /\ call.log[4].op = "pop"
  /\ cfg_lexer_get_context_type(lexer) = LL_CONTEXT_SOURCE
  /\ cfg_lexer_get_context_description(lexer) = "inner"


(***************************************************************************)
(* Properties of a token block                                             *)
(***************************************************************************)
\* C19: an append to a block that has been read from fails and adds nothing; the
\* tokens handed out are the first pos tokens of the block, and pos never exceeds
\* the number of tokens
C19_AppendOnlyBeforeRead ==
  call.fn = "token_block" =>
     /\ call.block.pos <= Len(call.block.tokens)
     /\ call.handed = SubSeq(call.block.tokens, 1, call.block.pos)
     /\ (call.last = "add_token" /\ call.before.pos > 0) =>
           call.aborted /\ call.block = call.before
     /\ (call.last = "add_token" /\ call.before.pos = 0) =>
           ~call.aborted /\ Len(call.block.tokens) = Len(call.before.tokens) + 1

\* two tokens appended, one read, and an append attempted
C19_Witness ==
  /\ call.fn = "token_block" /\ call.last = "add_token" /\ call.aborted
  /\ call.before.pos = 1
  /\ call.handed = <<TokenA>>
  /\ call.block.tokens = <<TokenA, TokenB>>


(***************************************************************************)
(* Properties of the destruction of the lexer                              *)
(***************************************************************************)
Destroyed == hist.destroyed # NULL

TimesIn(seq, x) == Cardinality({i \in 1..Len(seq) : seq[i] = x})

IsRegistered(data) ==
  \E i \in 1..Len(lexer.generators) : lexer.generators[i].generator_data = data

NoVersionMet == ret.h.cfg_before.version = 0 /\ ret.h.cfg_before.parsed_version = 0

\* what a return through the exit label has done to the configuration
VersionAtReturn ==
  PlainReturn =>
     /\ (NoVersionMet /\ ret.h.met_ctx # LL_CONTEXT_PRAGMA) =>
           /\ ret.h.cfg_after = [ret.h.cfg_before EXCEPT !.version = VERSION_VALUE_2_1]
           /\ ret.h.warned
     /\ (NoVersionMet /\ ret.h.met_ctx = LL_CONTEXT_PRAGMA) =>
           /\ ret.h.cfg_after = ret.h.cfg_before
           /\ ~ret.h.warned
     /\ (ret.h.cfg_before.version = 0 /\ ret.h.cfg_before.parsed_version # 0) =>
           /\ ret.h.cfg_after.version = ret.h.cfg_before.parsed_version
           /\ ~ret.h.warned
     /\ ret.h.cfg_before.version # 0 =>
           /\ ret.h.cfg_after = ret.h.cfg_before
           /\ ~ret.h.warned

\* the version changes only from 0, and only by a return through the exit label
VersionStep ==
  configuration'.version # configuration.version =>
     /\ configuration.version = 0
     /\ ret'.fn = "lex" /\ ret'.h.branch = "plain"
     /\ ret'.h.cfg_before = configuration /\ ret'.h.cfg_after = configuration'

\* C21: a token returned through the exit label outside a pragma, met with no version
\* and no parsed version, sets the version to 2.1 with a warning; a parsed version is
\* taken when there is one; inside a pragma nothing is defaulted; pragma markers,
\* intercepted includes and block references leave the version alone; the warning
\* is given at most once
C21_LegacyVersionOnce ==
  /\ [](VersionAtReturn /\ hist.version_warnings <= 1)
  /\ [][VersionStep]_vars

\* the second token of a configuration without a version: no second warning
C21_Witness ==
  /\ PlainReturn /\ hist.version_warnings = 1 /\ ~ret.h.warned
  /\ ret.h.met_ctx # LL_CONTEXT_PRAGMA
  /\ ret.h.cfg_before = [version |-> VERSION_VALUE_2_1, parsed_version |-> 0]
  /\ configuration.version = VERSION_VALUE_2_1


(***************************************************************************)
(* Properties of the push-back                                             *)
(***************************************************************************)
\* the grammar has the result of the first call made after an unput
AfterUnput == callstack = <<>> /\ hist.due # NULL /\ LexReturned

\* C22: the call that follows an unput returns the token that was pushed back,
\* whatever the token blocks held at the unput
C22_UnputReturnedNext ==
  AfterUnput =>
     /\ ret.injected
     /\ ret.yylval = hist.due[1]
     /\ ret.tok = value_tok(hist.due[1])


(***************************************************************************)
(* More properties of the block generator registry                         *)
(***************************************************************************)
\* the generators that the test of find accepts for (context, name)
Matching(context, name) ==
  {i \in 1..Len(lexer.generators) : generator_matches(lexer.generators[i], context, name)}

ConcreteContexts == RegContexts \ {0}

\* C23 as stated: at most one registered generator matches a lookup with a concrete
\* context, a generator for any context and one for a specific context never
\* coexist under one name
C23_AtMostOneMatch ==
  \A context \in ConcreteContexts, name \in RegNames :
     Cardinality(Matching(context, name)) <= 1

\* C23: no two generators have the same context and name, and a generator for any
\* context (0) is never followed by one of the same name; a generator for a specific
\* context can be followed by one for any context, so up to two generators match a
\* lookup, and find returns the one registered first, the specific one
C23_FirstRegisteredFound ==
  /\ \A i, j \in 1..Len(lexer.generators) :
        (i < j /\ lexer.generators[i].name = lexer.generators[j].name) =>
           /\ lexer.generators[i].context # 0
           /\ lexer.generators[i].context # lexer.generators[j].context
  /\ \A context \in ConcreteContexts, name \in RegNames :
        LET m == Matching(context, name)
            found == cfg_lexer_find_generator(lexer, context, name)
        IN /\ Cardinality(m) <= 2
           /\ (m = {}) = (found = NULL)
           /\ m # {} => \A j \in m : found[1] <= j
           /\ Cardinality(m) = 2 =>
                /\ lexer.generators[found[1]].context = context
                /\ \E j \in m : j > found[1] /\ lexer.generators[j].context = 0

\* (source, b) was registered, then (any, b): both are there, find gives the first
C23_Witness ==
  /\ Len(lexer.generators) >= 2
  /\ lexer.generators[1].context = LL_CONTEXT_SOURCE /\ lexer.generators[1].name = <<"b">>
  /\ lexer.generators[2].context = 0 /\ lexer.generators[2].name = <<"b">>
  /\ Matching(LL_CONTEXT_SOURCE, <<"b">>) = {1, 2}
  /\ cfg_lexer_find_generator(lexer, LL_CONTEXT_SOURCE, <<"b">>) = Some(1)
  /\ hist.nreg = 2 /\ hist.data_freed = <<>>


(***************************************************************************)
(* Properties of repeated block references                                 *)
(***************************************************************************)
\* C24: a reference leaves the content and the arg_defs of the block as they were
\* defined, whether the substitution succeeds or fails, and all references with
\* the same arguments push the same text (or fail alike)
C24_BlockUnchangedByExpansion ==
  call.fn = "expand" =>
     /\ call.block = call.defined
     /\ \A i, j \in 1..Len(call.pushed) : call.pushed[i] = call.pushed[j]
     /\ \A i \in 1..Len(call.pushed) :
          /\ call.pushed[i].ok = (call.pushed[i].value # NULL)
          /\ call.pushed[i].value =
               LET v == cfg_lexer_subst_args(
                          Some(cfg_args_new), Some(call.defined.arg_defs),
                          Some(call.args), LexEnv, call.defined.content)
               IN IF v = NULL THEN NULL ELSE Some(v[1].str)

\* a block with a reference in its content, referenced twice
C24_Witness ==
  /\ call.fn = "expand" /\ Len(call.pushed) = 2
  /\ call.defined.content = <<BT, "p", BT, "a">>
  /\ call.args = cfg_args_set(cfg_args_new, <<"p">>, <<"1">>)
  /\ call.pushed[2] = [ok |-> TRUE, value |-> Some(<<"1", "a">>)]
  /\ call.block.content = <<BT, "p", BT, "a">>

====
